---- MODULE Spec2Model ----
(***************************************************************************)
(* A model of McpHub (src/unnamed/part_002): the registry of server        *)
(* connections, the request / progress / task trackers and the inbound     *)
(* notification handlers.                                                  *)
(*                                                                         *)
(* JavaScript runs one callback at a time, so the code between two awaits  *)
(* is one atomic action.  Every async method is a small process: ops[c] is *)
(* the invocation run by caller c, and ops[c].pc names the await it is     *)
(* suspended at.  What the peer, the transport and the host answer is      *)
(* chosen with \E.                                                         *)
(***************************************************************************)
EXTENDS Integers, Sequences, FiniteSets, TLC

\* ------------------------------------------------------------------ bounds
MaxCallers == 2
MaxTransports == 2
MaxEvents == 1
MaxTaskCallers == 1
MaxTokens == 2
MaxControllers == 2
MaxProgress == 1
MaxLogs == 1
MaxStderr == 4

\* ------------------------------------------------------- program constants
MAX_ERROR_LENGTH == 1000
MAX_ERROR_HISTORY == 100
TRUNCATION_SUFFIX_LENGTH == 28
DEFAULT_TIMEOUT == 60

Names == {"a", "b"}
Sources == {"global", "project"}
NoSource == "none"
Callers == 1 .. MaxCallers
TaskCallers == 1 .. MaxTaskCallers
TransportIds == 1 .. MaxTransports

\* A server configuration as far as connectToServer reads it: a validated
\* one, in which the schema has filled in the default timeout.
Configs ==
    { [type |-> "stdio", disabled |-> FALSE, timeout |-> DEFAULT_TIMEOUT],
      [type |-> "sse", disabled |-> FALSE, timeout |-> DEFAULT_TIMEOUT],
      [type |-> "stdio", disabled |-> TRUE, timeout |-> DEFAULT_TIMEOUT] }

\* An error text with its length in characters.
ErrStart == [text |-> "spawn failed", len |-> 12]
ErrCreate == [text |-> "invalid url", len |-> 11]
ErrHandshake == [text |-> "handshake failed", len |-> 16]
ErrTransport == [text |-> "transport error", len |-> 15]
NoError == [text |-> "", len |-> 0]

TaskIds == {"t1"}
RequestIds == {"r1", "r2"}
Tokens == 1 .. MaxTokens
Statuses == {"working", "input_required", "completed", "failed", "cancelled"}
Terminal == {"completed", "failed", "cancelled"}

\* The three Maps are total functions here; these values stand for "no entry".
NoTask ==
    [serverName |-> "none", source |-> NoSource, status |-> "none",
     progressToken |-> 0]
NoToken == [serverName |-> "none", callback |-> FALSE, lastProgress |-> 0]
NoPending == [serverName |-> "none", controller |-> 0]

HasTask(tasks, taskId) == tasks[taskId] # NoTask
HasToken(tokens, token) == token # 0 /\ tokens[token] # NoToken
HasPending(reqs, requestId) == reqs[requestId] # NoPending

VARIABLES
    connections,          \* McpHub.connections: a list of connection objects
    clients,              \* per transport id: the SDK client and its transport
    nextTid,              \* the next connection object to be constructed
    sent,                 \* the last request handed to a transport that carries it
    events,               \* spontaneous transport events so far
    ops,                  \* the invocation each caller runs
    activeProgressTokens, \* McpHub.activeProgressTokens: token -> data
    nextToken,            \* crypto.randomUUID(): the next fresh token
    activeTasks,          \* McpHub.activeTasks: taskId -> task state
    pendingRequests,      \* McpHub.pendingRequests: requestId -> controller
    controllers,          \* the AbortControllers constructed so far
    outcome,              \* what the task operation that settled last gave its caller
    observed,             \* what the notification handled last handed to observers
    isConnecting,         \* McpHub.isConnecting
    isDisposed,           \* McpHub.isDisposed
    resourceSubscriptions \* McpHub.resourceSubscriptions: serverKey -> uris

connVars == <<connections, clients, nextTid, sent, events>>
hubVars == <<isConnecting, isDisposed, resourceSubscriptions>>
trackVars == <<activeProgressTokens, nextToken, activeTasks, pendingRequests,
               controllers, outcome, observed, hubVars>>
vars == <<connections, clients, nextTid, sent, events, ops,
          activeProgressTokens, nextToken, activeTasks, pendingRequests,
          controllers, outcome, observed, isConnecting, isDisposed,
          resourceSubscriptions>>

\* ----------------------------------------------------------------- helpers
\* outer and opc are the caller of a nested connectToServer and where it
\* resumes; todo, servers, manage and top belong to updateServerConnections.
Idle ==
    [op |-> "none", pc |-> "idle", name |-> "a", source |-> NoSource,
     cfg |-> [type |-> "stdio", disabled |-> FALSE,
              timeout |-> DEFAULT_TIMEOUT], tid |-> 0,
     targets |-> <<>>, dname |-> "a", dsource |-> NoSource, ret |-> "done",
     task |-> "none", token |-> 0, uri |-> "none",
     outer |-> "none", opc |-> "idle", todo |-> <<>>, servers |-> <<>>,
     manage |-> FALSE, top |-> "none"]

Free(c) == ops[c].pc = "idle"

\* The transport of a client: "new" (constructed, not yet started), "open",
\* "closing" (close() called, onclose not yet delivered), "closed".
\* hs is the initialize handshake: "none", "inflight", "done", "failed".
\* Before the client is constructed its transport is "none".
\* tasks and subscribe are whether the peer declares the tasks capability
\* and resources.subscribe.
NoClient ==
    [transport |-> "none", hs |-> "none", name |-> "a", source |-> "global",
     tasks |-> FALSE, subscribe |-> FALSE]

IndexOfTid(tid) ==
    LET S == {i \in DOMAIN connections : connections[i].tid = tid}
    IN IF S = {} THEN 0 ELSE CHOOSE i \in S : TRUE

FirstOf(S) == IF S = {} THEN 0 ELSE CHOOSE i \in S : \A j \in S : i <= j

\* findConnection: the first entry of that name and source; without a source
\* the first project entry, else the first global one.  0 is undefined.
findConnection(serverName, source) ==
    LET bySource(s) ==
            {i \in DOMAIN connections :
                connections[i].name = serverName /\ connections[i].source = s}
    IN IF source # NoSource
       THEN FirstOf(bySource(source))
       ELSE IF bySource("project") # {}
            THEN FirstOf(bySource("project"))
            ELSE FirstOf(bySource("global"))

truncatedError(error) ==
    IF error.len > MAX_ERROR_LENGTH
    THEN [text |-> error.text, len |-> MAX_ERROR_LENGTH + TRUNCATION_SUFFIX_LENGTH]
    ELSE error

\* An appendErrorMessage that keeps the first 100 entries.
appendErrorMessageKeepsOldest(conn, error, level) ==
    LET h == Append(conn.errorHistory,
                    [message |-> truncatedError(error), level |-> level])
    IN [conn EXCEPT
          !.errorHistory =
              IF Len(h) > MAX_ERROR_HISTORY
              THEN SubSeq(h, 1, MAX_ERROR_HISTORY)
              ELSE h,
          !.error = truncatedError(error)]

\* appendErrorMessage: push the truncated message, keep the last 100.
appendErrorMessage(conn, error, level) ==
    LET h == Append(conn.errorHistory,
                    [message |-> truncatedError(error), level |-> level])
    IN [conn EXCEPT
          !.errorHistory =
              IF Len(h) > MAX_ERROR_HISTORY
              THEN SubSeq(h, Len(h) - MAX_ERROR_HISTORY + 1, Len(h))
              ELSE h,
          !.error = truncatedError(error)]

createPlaceholderConnection(name, cfg, source, serverDisabled) ==
    [name |-> name, source |-> source, type |-> "disconnected",
     status |-> "disconnected",
     disabled |-> IF serverDisabled THEN TRUE ELSE cfg.disabled,
     config |-> cfg, errorHistory |-> <<>>, error |-> NoError, tid |-> 0]

ConnectedConnection(name, cfg, source, tid) ==
    [name |-> name, source |-> source, type |-> "connected",
     status |-> "connecting", disabled |-> cfg.disabled,
     config |-> cfg, errorHistory |-> <<>>, error |-> NoError, tid |-> tid]

\* The catch block of connectToServer: whatever entry findConnection returns
\* for (name, source) becomes disconnected and records the error.
connectCatch(conns, i, error) ==
    IF i = 0 THEN conns
    ELSE [conns EXCEPT
            ![i] = appendErrorMessage([@ EXCEPT !.status = "disconnected"],
                                      error, "error")]

\* transport.close(): an open or starting transport begins to close.
closeCalled(cl) ==
    IF cl.transport \in {"new", "open"}
    THEN [cl EXCEPT !.transport = "closing"]
    ELSE cl

\* client.request: the SDK hands the message to the transport the client is
\* attached to; a transport that is not open carries nothing and the request
\* rejects.  ready records whether the handshake had completed.
NoRequest == [method |-> "none", ready |-> TRUE]

CanSend(tid) == tid # 0 /\ clients[tid].transport = "open"

Request(tid, method) == [method |-> method, ready |-> clients[tid].hs = "done"]

Initialize == [method |-> "initialize", ready |-> FALSE]

\* deleteConnection, first half: the entries it will close.
DeleteTargets(name, source) ==
    LET match(conn) ==
            /\ conn.name = name
            /\ (source = NoSource \/ conn.source = source)
            /\ conn.type = "connected"
        sel == SelectSeq(connections, match)
    IN [i \in DOMAIN sel |-> sel[i].tid]

\* A filter that drops every entry of the name, whatever its source.
RemoveConnectionsByName(conns, name, source) ==
    LET keep(conn) == conn.name # name
    IN SelectSeq(conns, keep)

\* deleteConnection, second half: the filter over this.connections.
RemoveConnections(conns, name, source) ==
    LET keep(conn) ==
            \/ conn.name # name
            \/ (source # NoSource /\ conn.source # source)
    IN SelectSeq(conns, keep)

NoTrackers ==
    /\ activeProgressTokens = [k \in Tokens |-> NoToken]
    /\ nextToken = 1
    /\ activeTasks = [k \in TaskIds |-> NoTask]
    /\ pendingRequests = [k \in RequestIds |-> NoPending]
    /\ controllers = <<>>
    /\ outcome = "none"
    /\ observed = <<>>
    /\ isConnecting = FALSE
    /\ isDisposed = FALSE
    /\ resourceSubscriptions = {}

\* The hub after construction, before any server is connected.
Init ==
    /\ connections = <<>>
    /\ clients = [t \in TransportIds |-> NoClient]
    /\ nextTid = 1
    /\ sent = NoRequest
    /\ events = 0
    /\ ops = [c \in Callers |-> Idle]
    /\ NoTrackers

\* The invocation of caller c settles: it returns, or it throws.  A
\* connectToServer that restartConnection or updateServerConnections awaits
\* inside a try block hands control back to it either way.
Resume(o) ==
    IF o.outer = "none" THEN Idle
    ELSE [Idle EXCEPT !.op = o.outer, !.pc = o.opc, !.name = o.name,
                      !.source = o.source, !.todo = o.todo,
                      !.servers = o.servers, !.manage = o.manage,
                      !.top = o.top]

Settle(c) == ops' = [ops EXCEPT ![c] = Resume(ops[c])]

\* ---------------------------------------------------------- deleteConnection
\* A call of deleteConnection(name, source) by caller c whose record becomes
\* base, up to its first await.  With nothing to close the loop awaits nothing
\* and the filter runs at once; the caller resumes at ret.
deleteConnectionCall(c, base, name, source, ret) ==
    LET targets == DeleteTargets(name, source)
    IN IF targets = <<>>
       THEN /\ connections' = RemoveConnections(connections, name, source)
            /\ clients' = clients
            /\ IF ret = "done"
               THEN Settle(c)
               ELSE /\ ops' = [ops EXCEPT ![c] = [base EXCEPT !.pc = ret]]
       ELSE /\ connections' = connections
            /\ clients' = [clients EXCEPT
                              ![Head(targets)] = closeCalled(@)]
            /\ ops' = [ops EXCEPT ![c] =
                          [base EXCEPT !.pc = "dClose", !.targets = targets,
                                       !.dname = name, !.dsource = source,
                                       !.ret = ret]]

StartDelete(c, name, source) ==
    /\ Free(c)
    /\ deleteConnectionCall(
           c, [Idle EXCEPT !.op = "deleteConnection", !.name = name,
                           !.source = source],
           name, source, "done")
    /\ UNCHANGED <<nextTid, sent, events, trackVars>>

\* transport.close() and client.close() of the current target have settled
\* (a rejection is caught and logged): close the next one, or filter.
DeleteClosed(c) ==
    /\ ops[c].pc = "dClose"
    /\ LET rest == Tail(ops[c].targets)
       IN IF rest # <<>>
          THEN /\ clients' = [clients EXCEPT ![Head(rest)] = closeCalled(@)]
               /\ connections' = connections
               /\ ops' = [ops EXCEPT ![c].targets = rest]
          ELSE /\ clients' = clients
               /\ connections' =
                    RemoveConnections(connections, ops[c].dname, ops[c].dsource)
               /\ IF ops[c].ret = "done"
                  THEN Settle(c)
                  ELSE /\ ops' = [ops EXCEPT ![c].targets = <<>>,
                                             ![c].pc = ops[c].ret]
    /\ UNCHANGED <<nextTid, sent, events, trackVars>>

\* ---------------------------------------------------------- connectToServer
Push(conns, conn) == Append(conns, conn)


\* connectToServer(name, config, source) is entered by its callers
\* (updateServerConnections, restartConnection): it first awaits
\* deleteConnection(name, source).
StartConnect(c, name, source, cfg) ==
    /\ Free(c)
    /\ nextTid <= MaxTransports
    /\ deleteConnectionCall(
           c, [Idle EXCEPT !.op = "connectToServer", !.name = name,
                           !.source = source, !.cfg = cfg, !.tid = nextTid],
           name, source, "cEnabled")
    /\ nextTid' = nextTid + 1
    /\ UNCHANGED <<sent, events, trackVars>>

\* After deleteConnection and isMcpEnabled(): the two placeholder exits, or
\* the client is constructed and injectVariables is awaited.
ConnectEnabled(c) ==
    /\ ops[c].pc = "cEnabled"
    /\ LET o == ops[c]
       IN \E mcpEnabled \in BOOLEAN :
            IF ~mcpEnabled
            THEN /\ connections' =
                      Push(connections,
                           createPlaceholderConnection(o.name, o.cfg, o.source, FALSE))
                 /\ Settle(c)
            ELSE IF o.cfg.disabled
            THEN /\ connections' =
                      Push(connections,
                           createPlaceholderConnection(o.name, o.cfg, o.source, TRUE))
                 /\ Settle(c)
            ELSE /\ connections' = connections
                 /\ ops' = [ops EXCEPT ![c].pc = "cInject"]
    /\ UNCHANGED <<clients, nextTid, sent, events, trackVars>>

\* The transport is constructed and its onerror / onclose handlers are set.
\* A stdio transport is started here and awaited, before the entry is pushed;
\* the others are pushed with status connecting and client.connect starts
\* them.  A throw (injectVariables, new URL) reaches the catch block.
ConnectInjected(c) ==
    /\ ops[c].pc = "cInject"
    /\ LET o == ops[c]
           made == [transport |-> "new", hs |-> "none",
                    name |-> o.name, source |-> o.source, tasks |-> FALSE,
                    subscribe |-> FALSE]
       IN \E created \in BOOLEAN :
            IF ~created
            THEN /\ connections' =
                      connectCatch(connections,
                                   findConnection(o.name, o.source), ErrCreate)
                 /\ clients' = clients
                 /\ Settle(c)
            ELSE IF o.cfg.type = "stdio"
            THEN /\ connections' = connections
                 /\ clients' = [clients EXCEPT ![o.tid] = made]
                 /\ ops' = [ops EXCEPT ![c].pc = "cStart"]
            ELSE /\ connections' =
                      Push(connections,
                           ConnectedConnection(o.name, o.cfg, o.source, o.tid))
                 /\ clients' = [clients EXCEPT
                                  ![o.tid] = [made EXCEPT !.hs = "inflight"]]
                 /\ ops' = [ops EXCEPT ![c].pc = "cHandshake"]
    /\ UNCHANGED <<nextTid, sent, events, trackVars>>

\* transport.start() of a stdio transport has settled.  On success the entry
\* is pushed with status connecting and client.connect sends initialize.
ConnectStarted(c) ==
    /\ ops[c].pc = "cStart"
    /\ LET o == ops[c]
       IN \E started \in BOOLEAN :
            IF ~started
            THEN /\ connections' =
                      connectCatch(connections,
                                   findConnection(o.name, o.source), ErrStart)
                 /\ clients' = [clients EXCEPT ![o.tid].transport = "closed"]
                 /\ sent' = sent
                 /\ Settle(c)
            ELSE /\ connections' =
                      Push(connections,
                           ConnectedConnection(o.name, o.cfg, o.source, o.tid))
                 /\ clients' = [clients EXCEPT ![o.tid].transport = "open",
                                               ![o.tid].hs = "inflight"]
                 /\ sent' = Initialize
                 /\ ops' = [ops EXCEPT ![c].pc = "cHandshake"]
    /\ UNCHANGED <<nextTid, events, trackVars>>

\* connection.server.status = "connected" is an assignment to the object that
\* connectToServer constructed, wherever (and whether) it is in the list.
SetStatusOfTid(conns, tid, status) ==
    [i \in DOMAIN conns |->
        IF conns[i].tid = tid
        THEN [conns[i] EXCEPT !.status = status, !.error = NoError]
        ELSE conns[i]]

\* fetchToolsList (and the three list fetches after it, which have its shape):
\* findConnection, and a request on the client of the entry it returns.  When
\* it sends nothing the last request stays the initialize of this connect.
FetchRequest(conns, cls, name, source) ==
    LET S == {i \in DOMAIN conns :
                 conns[i].name = name /\ conns[i].source = source}
        i == FirstOf(S)
    IN IF i # 0 /\ conns[i].type = "connected"
            /\ cls[conns[i].tid].transport = "open"
       THEN [method |-> "tools/list", ready |-> cls[conns[i].tid].hs = "done"]
       ELSE Initialize

\* client.connect(transport) has settled.  It resolves only over a transport
\* that is still there; when it rejects, the SDK client closes its transport
\* and the catch block marks the entry findConnection returns.
ConnectHandshake(c) ==
    /\ ops[c].pc = "cHandshake"
    /\ LET o == ops[c]
           alive == clients[o.tid].transport \in
                        (IF o.cfg.type = "stdio" THEN {"open"} ELSE {"new"})
       IN \E connected \in BOOLEAN :
            IF connected
            THEN /\ alive
                 /\ LET cls == [clients EXCEPT ![o.tid].transport = "open",
                                               ![o.tid].hs = "done"]
                        conns == SetStatusOfTid(connections, o.tid, "connected")
                    IN /\ clients' = cls
                       /\ connections' = conns
                       /\ sent' = FetchRequest(conns, cls, o.name, o.source)
                 /\ ops' = [ops EXCEPT ![c].pc = "cFetch"]
            ELSE /\ clients' = [clients EXCEPT
                                  ![o.tid] = closeCalled([@ EXCEPT !.hs = "failed"])]
                 /\ connections' =
                      connectCatch(connections,
                                   findConnection(o.name, o.source), ErrHandshake)
                 /\ sent' = sent
                 /\ Settle(c)
    /\ UNCHANGED <<nextTid, events, trackVars>>

\* The list fetches have settled; each swallows its own errors.
ConnectFetched(c) ==
    /\ ops[c].pc = "cFetch"
    /\ Settle(c)
    /\ UNCHANGED <<connVars, trackVars>>

\* ---------------------------------------------------------- transport events
\* An onerror closure that looks the server up by name alone.
TransportErrorByName(t) ==
    /\ clients[t].transport \in {"new", "open"}
    /\ events < MaxEvents
    /\ events' = events + 1
    /\ LET i == findConnection(clients[t].name, NoSource)
       IN connections' =
            IF i = 0 THEN connections
            ELSE [connections EXCEPT
                    ![i] = appendErrorMessage([@ EXCEPT !.status = "disconnected"],
                                              ErrTransport, "error")]
    /\ UNCHANGED <<clients, nextTid, sent, ops, trackVars>>

\* transport.onerror: the closure looks its (name, source) up again.
TransportError(t) ==
    /\ clients[t].transport \in {"new", "open"}
    /\ events < MaxEvents
    /\ events' = events + 1
    /\ LET i == findConnection(clients[t].name, clients[t].source)
       IN connections' =
            IF i = 0 THEN connections
            ELSE [connections EXCEPT
                    ![i] = appendErrorMessage([@ EXCEPT !.status = "disconnected"],
                                              ErrTransport, "error")]
    /\ UNCHANGED <<clients, nextTid, sent, ops, trackVars>>

\* An onclose closure that leaves an entry alone while it is connecting.
TransportCloseWhenConnected(t) ==
    /\ \/ clients[t].transport = "closing" /\ events' = events
       \/ clients[t].transport = "open" /\ events < MaxEvents
            /\ events' = events + 1
    /\ clients' = [clients EXCEPT ![t].transport = "closed"]
    /\ LET i == findConnection(clients[t].name, clients[t].source)
       IN connections' =
            IF i = 0 \/ connections[i].status # "connected" THEN connections
            ELSE [connections EXCEPT ![i].status = "disconnected"]
    /\ UNCHANGED <<nextTid, sent, ops, trackVars>>

\* transport.onclose: after close() was called, or when the peer goes away.
TransportClose(t) ==
    /\ \/ clients[t].transport = "closing" /\ events' = events
       \/ clients[t].transport = "open" /\ events < MaxEvents
            /\ events' = events + 1
    /\ clients' = [clients EXCEPT ![t].transport = "closed"]
    /\ LET i == findConnection(clients[t].name, clients[t].source)
       IN connections' =
            IF i = 0 THEN connections
            ELSE [connections EXCEPT ![i].status = "disconnected"]
    /\ UNCHANGED <<nextTid, sent, ops, trackVars>>

\* ------------------------------------------------------------------ callTool
ErrNoConnection == [text |-> "No connection found", len |-> 19]
ErrDisabled == [text |-> "Server is disabled", len |-> 18]
ErrRequest == [text |-> "request failed", len |-> 14]

\* The guards of callTool and the other request operations: an entry of type
\* "connected" that is not disabled.
RequestGuard(i) ==
    IF i = 0 \/ connections[i].type # "connected" THEN ErrNoConnection
    ELSE IF connections[i].disabled THEN ErrDisabled
    ELSE NoError

\* callTool(serverName, toolName, toolArguments, source).  What follows its
\* await only returns the response or rethrows, so the call is one action.
callTool(name, source) ==
    LET i == findConnection(name, source)
    IN /\ sent' = IF RequestGuard(i) = NoError /\ CanSend(connections[i].tid)
                  THEN Request(connections[i].tid, "tools/call")
                  ELSE sent
       /\ UNCHANGED <<connections, clients, nextTid, events, ops, trackVars>>

\* ------------------------------------------------------------ sendCancellation
\* connection?.client: placeholders carry no client.
HasClient(i) == i # 0 /\ connections[i].tid # 0

\* The id under which the SDK client sent the initialize request.
InitializeId == "init"

\* sendCancellation(serverName, requestId, reason, source): without a client
\* it warns and returns; otherwise it sends notifications/cancelled, and
\* whether that resolves or rejects it returns.
sendCancellation(serverName, requestId, source) ==
    LET i == findConnection(serverName, source)
    IN /\ sent' = IF HasClient(i) /\ CanSend(connections[i].tid)
                  THEN Request(connections[i].tid, "notifications/cancelled")
                  ELSE sent
       /\ UNCHANGED <<connections, clients, nextTid, events, ops, trackVars>>

\* -------------------------------------------------------- the connection hub
\* The servers of the settings files: one name, configured in both sources.
ConnNext ==
    \/ \E c \in Callers :
        \/ \E source \in Sources \cup {NoSource} : StartDelete(c, "a", source)
        \/ DeleteClosed(c)
        \/ \E source \in Sources, cfg \in Configs : StartConnect(c, "a", source, cfg)
        \/ ConnectEnabled(c)
        \/ ConnectInjected(c)
        \/ ConnectStarted(c)
        \/ ConnectHandshake(c)
        \/ ConnectFetched(c)
    \/ \E t \in TransportIds :
        \/ TransportError(t)
        \/ TransportClose(t)
    \/ \E source \in Sources \cup {NoSource} : callTool("a", source)
    \/ \E source \in Sources \cup {NoSource} :
         sendCancellation("a", InitializeId, source)

SpecConn == Init /\ [][ConnNext]_vars

\* ------------------------------------------------------------- the trackers
\* generateProgressToken: a fresh token, registered with lastProgress 0.
generateProgressToken(tokens, token, serverName, callback) ==
    [tokens EXCEPT ![token] = [serverName |-> serverName, callback |-> callback,
                               lastProgress |-> 0]]

\* clearProgressToken: Map.delete; 0 is "no token", which the callers skip.
clearProgressToken(tokens, token) ==
    IF token = 0 THEN tokens ELSE [tokens EXCEPT ![token] = NoToken]

\* A response can only arrive over a transport that is still open; when the
\* transport closes the SDK rejects what is pending.
CanAnswer(tid) == clients[tid].transport = "open"

\* The hub with servers "a" and "b" of the global settings connected; the peer
\* of "a" declares the tasks capability and resources.subscribe, the peer of
\* "b" declares neither.
StdioConfig ==
    [type |-> "stdio", disabled |-> FALSE, timeout |-> DEFAULT_TIMEOUT]

ConnectedClient(name, tasks) ==
    [transport |-> "open", hs |-> "done", name |-> name, source |-> "global",
     tasks |-> tasks, subscribe |-> tasks]

TrackInit ==
    /\ connections =
         << [ConnectedConnection("a", StdioConfig, "global", 1)
                EXCEPT !.status = "connected"],
            [ConnectedConnection("b", StdioConfig, "global", 2)
                EXCEPT !.status = "connected"] >>
    /\ clients = [t \in TransportIds |->
                    IF t = 1 THEN ConnectedClient("a", TRUE)
                    ELSE IF t = 2 THEN ConnectedClient("b", FALSE)
                    ELSE NoClient]
    /\ nextTid = 3
    /\ sent = NoRequest
    /\ events = 0
    /\ ops = [c \in Callers |-> Idle]
    /\ NoTrackers

\* What the task operations throw: new McpError(ErrorCode.InternalError,
\* message), written as the code and the message.  The only task id is t1; a
\* failed task that carries no statusMessage reads "unknown error".
NotConnected == "InternalError: Server not connected"
TaskTimedOut == "InternalError: Task t1 timed out after 300000ms"
TaskNotFound == "InternalError: Task t1 not found"
TaskFailed == "InternalError: Task t1 failed: unknown error"
TaskCancelled == "InternalError: Task t1 was cancelled"

\* A task operation of caller c settles with result r, or suspends (r "none").
Return(c, r) ==
    /\ ops' = [ops EXCEPT ![c] = Idle]
    /\ outcome' = r
    /\ observed' = observed
    /\ UNCHANGED hubVars

\* The request of a task operation: handed to the transport, or rejected at
\* once when the transport is not open.
Suspend(c, rec, pc) ==
    /\ ops' = [ops EXCEPT ![c] = [rec EXCEPT !.pc = pc]]
    /\ outcome' = "none"
    /\ observed' = observed
    /\ UNCHANGED hubVars

\* ------------------------------------------------------------ callToolAsTask
StartCallToolAsTask(c, name, source, withCallback) ==
    LET i == findConnection(name, source)
        tid == connections[i].tid
        rec == [Idle EXCEPT !.op = "callToolAsTask", !.name = name,
                            !.source = source, !.tid = tid]
    IN /\ Free(c)
       /\ IF ~HasClient(i)
          THEN /\ Return(c, NotConnected)
               /\ UNCHANGED <<sent, activeProgressTokens, nextToken>>
          ELSE IF ~clients[tid].tasks
          THEN /\ UNCHANGED <<activeProgressTokens, nextToken>>
               /\ IF CanSend(tid)
                  THEN /\ sent' = Request(tid, "tools/call")
                       /\ Suspend(c, rec, "ctPlain")
                  ELSE /\ sent' = sent
                       /\ Return(c, "error")
          ELSE /\ withCallback => nextToken <= MaxTokens
               /\ nextToken' = IF withCallback THEN nextToken + 1 ELSE nextToken
               /\ IF CanSend(tid)
                  THEN /\ sent' = Request(tid, "tools/call")
                       /\ activeProgressTokens' =
                            IF withCallback
                            THEN generateProgressToken(activeProgressTokens,
                                                       nextToken, name, TRUE)
                            ELSE activeProgressTokens
                       /\ Suspend(c, [rec EXCEPT !.token =
                                         IF withCallback THEN nextToken ELSE 0],
                                  "ctTask")
                  ELSE /\ sent' = sent
                       /\ activeProgressTokens' = activeProgressTokens
                       /\ Return(c, "error")
       /\ UNCHANGED <<connections, clients, nextTid, hubVars, events, activeTasks,
                      pendingRequests, controllers>>

\* A fallback call that tracks its result as a task.
CallToolAsTaskPlainTracks(c, ok) ==
    /\ ops[c].pc = "ctPlain"
    /\ ok => CanAnswer(ops[c].tid)
    /\ activeTasks' = [activeTasks EXCEPT !["t1"] =
                          [serverName |-> ops[c].name, source |-> ops[c].source,
                           status |-> "completed", progressToken |-> 0]]
    /\ Return(c, IF ok THEN "result" ELSE "error")
    /\ UNCHANGED <<connVars, hubVars, activeProgressTokens, nextToken,
                   pendingRequests, controllers>>

\* The tools/call of a peer without tasks returns or rejects.
CallToolAsTaskPlain(c, ok) ==
    /\ ops[c].pc = "ctPlain"
    /\ ok => CanAnswer(ops[c].tid)
    /\ Return(c, IF ok THEN "result" ELSE "error")
    /\ UNCHANGED <<connVars, hubVars, activeProgressTokens, nextToken, activeTasks,
                   pendingRequests, controllers>>

\* A call whose token lives for the request and its response only.
CallToolAsTaskCreatedReleasesToken(c, taskId, status) ==
    /\ ops[c].pc = "ctTask"
    /\ CanAnswer(ops[c].tid)
    /\ activeTasks' = [activeTasks EXCEPT ![taskId] =
                          [serverName |-> ops[c].name, source |-> ops[c].source,
                           status |-> status, progressToken |-> ops[c].token]]
    /\ activeProgressTokens' =
         clearProgressToken(activeProgressTokens, ops[c].token)
    /\ Return(c, "task")
    /\ UNCHANGED <<connVars, hubVars, nextToken, pendingRequests, controllers>>

\* The task-augmented call answers with a CreateTaskResult.
CallToolAsTaskCreated(c, taskId, status) ==
    /\ ops[c].pc = "ctTask"
    /\ CanAnswer(ops[c].tid)
    /\ activeTasks' = [activeTasks EXCEPT ![taskId] =
                          [serverName |-> ops[c].name, source |-> ops[c].source,
                           status |-> status, progressToken |-> ops[c].token]]
    /\ Return(c, "task")
    /\ UNCHANGED <<connVars, hubVars, activeProgressTokens, nextToken, pendingRequests,
                   controllers>>

\* The task-augmented call answers with a plain result, or rejects.
CallToolAsTaskResult(c, ok) ==
    /\ ops[c].pc = "ctTask"
    /\ ok => CanAnswer(ops[c].tid)
    /\ activeProgressTokens' =
         clearProgressToken(activeProgressTokens, ops[c].token)
    /\ Return(c, IF ok THEN "result" ELSE "error")
    /\ UNCHANGED <<connVars, hubVars, nextToken, activeTasks, pendingRequests,
                   controllers>>

\* ------------------------------------------------- getTask, result, cancel
\* The entry of a task operation that sends one request and awaits it.
TaskRequest(c, op, name, taskId, source, method, pc) ==
    LET i == findConnection(name, source)
        tid == connections[i].tid
        rec == [Idle EXCEPT !.op = op, !.name = name, !.source = source,
                            !.tid = tid, !.task = taskId]
    IN IF ~HasClient(i)
       THEN /\ Return(c, NotConnected)
            /\ sent' = sent
       ELSE IF CanSend(tid)
       THEN /\ sent' = Request(tid, method)
            /\ Suspend(c, rec, pc)
       ELSE /\ sent' = sent
            /\ Return(c, "error")

\* "Update local tracking" of getTask.
getTaskUpdate(tasks, taskId, status) ==
    IF HasTask(tasks, taskId)
    THEN [tasks EXCEPT ![taskId].status = status]
    ELSE tasks

\* "Clean up task tracking after result retrieval" of getTaskResult.
resultCleanupTokens(tokens, tasks, taskId) ==
    IF HasTask(tasks, taskId)
    THEN clearProgressToken(tokens, tasks[taskId].progressToken)
    ELSE tokens

\* "Update local tracking" of cancelTask.
cancelTaskUpdate(tasks, taskId) ==
    IF HasTask(tasks, taskId)
    THEN [tasks EXCEPT ![taskId].status = "cancelled"]
    ELSE tasks

StartGetTask(c, name, taskId, source) ==
    /\ Free(c)
    /\ TaskRequest(c, "getTask", name, taskId, source, "tasks/get", "gtWait")
    /\ UNCHANGED <<connections, clients, nextTid, hubVars, events, activeProgressTokens,
                   nextToken, activeTasks, pendingRequests, controllers>>

\* tasks/get answers with the task in some status, with no task, or rejects.
GetTaskReturned(c, reply) ==
    /\ ops[c].pc = "gtWait"
    /\ reply # "error" => CanAnswer(ops[c].tid)
    /\ activeTasks' = IF reply \in Statuses
                      THEN getTaskUpdate(activeTasks, ops[c].task, reply)
                      ELSE activeTasks
    /\ Return(c, IF reply \in Statuses THEN "status" ELSE reply)
    /\ UNCHANGED <<connVars, hubVars, activeProgressTokens, nextToken, pendingRequests,
                   controllers>>

StartGetTaskResult(c, name, taskId, source) ==
    /\ Free(c)
    /\ TaskRequest(c, "getTaskResult", name, taskId, source, "tasks/result",
                   "grWait")
    /\ UNCHANGED <<connections, clients, nextTid, hubVars, events, activeProgressTokens,
                   nextToken, activeTasks, pendingRequests, controllers>>

\* A getTaskResult that cleans up whether or not the request succeeded.
GetTaskResultCleansAlways(c, ok) ==
    /\ ops[c].pc = "grWait"
    /\ ok => CanAnswer(ops[c].tid)
    /\ activeProgressTokens' =
         resultCleanupTokens(activeProgressTokens, activeTasks, ops[c].task)
    /\ activeTasks' = [activeTasks EXCEPT ![ops[c].task] = NoTask]
    /\ Return(c, IF ok THEN "result" ELSE "error")
    /\ UNCHANGED <<connVars, hubVars, nextToken, pendingRequests, controllers>>

GetTaskResultReturned(c, ok) ==
    /\ ops[c].pc = "grWait"
    /\ ok => CanAnswer(ops[c].tid)
    /\ IF ok
       THEN /\ activeProgressTokens' =
                 resultCleanupTokens(activeProgressTokens, activeTasks,
                                     ops[c].task)
            /\ activeTasks' = [activeTasks EXCEPT ![ops[c].task] = NoTask]
       ELSE UNCHANGED <<activeProgressTokens, activeTasks>>
    /\ Return(c, IF ok THEN "result" ELSE "error")
    /\ UNCHANGED <<connVars, hubVars, nextToken, pendingRequests, controllers>>

StartCancelTask(c, name, taskId, source) ==
    /\ Free(c)
    /\ TaskRequest(c, "cancelTask", name, taskId, source, "tasks/cancel",
                   "caWait")
    /\ UNCHANGED <<connections, clients, nextTid, hubVars, events, activeProgressTokens,
                   nextToken, activeTasks, pendingRequests, controllers>>

\* A cancelTask that marks the record before looking at the answer.
CancelTaskMarksAlways(c, ok) ==
    /\ ops[c].pc = "caWait"
    /\ ok => CanAnswer(ops[c].tid)
    /\ activeTasks' = cancelTaskUpdate(activeTasks, ops[c].task)
    /\ Return(c, IF ok THEN "cancel accepted" ELSE "error")
    /\ UNCHANGED <<connVars, hubVars, activeProgressTokens, nextToken, pendingRequests,
                   controllers>>

CancelTaskReturned(c, ok) ==
    /\ ops[c].pc = "caWait"
    /\ ok => CanAnswer(ops[c].tid)
    /\ activeTasks' = IF ok THEN cancelTaskUpdate(activeTasks, ops[c].task)
                      ELSE activeTasks
    /\ Return(c, IF ok THEN "cancel accepted" ELSE "error")
    /\ UNCHANGED <<connVars, hubVars, activeProgressTokens, nextToken, pendingRequests,
                   controllers>>

\* ------------------------------------------------------ pollTaskUntilComplete
\* The first pass of the loop: the timeout has not run out, getTask is called.
StartPoll(c, name, taskId, source) ==
    /\ Free(c)
    /\ TaskRequest(c, "pollTaskUntilComplete", name, taskId, source,
                   "tasks/get", "pGet")
    /\ UNCHANGED <<connections, clients, nextTid, hubVars, events, activeProgressTokens,
                   nextToken, activeTasks, pendingRequests, controllers>>

\* A loop that fetches the payload at every terminal status.
PollGotFetchesAtTerminal(c, reply) ==
    LET o == ops[c]
    IN /\ o.pc = "pGet"
       /\ reply # "error" => CanAnswer(o.tid)
       /\ activeTasks' = IF reply \in Statuses
                         THEN getTaskUpdate(activeTasks, o.task, reply)
                         ELSE activeTasks
       /\ IF reply \in Terminal
          THEN TaskRequest(c, o.op, o.name, o.task, o.source, "tasks/result",
                           "pResult")
          ELSE /\ sent' = sent
               /\ IF reply = "failed" THEN Return(c, TaskFailed)
                  ELSE IF reply = "cancelled" THEN Return(c, TaskCancelled)
                  ELSE IF reply \in Statuses THEN Suspend(c, o, "pDelay")
                  ELSE IF reply = "no task" THEN Return(c, TaskNotFound)
                  ELSE Return(c, "error")
       /\ UNCHANGED <<connections, clients, nextTid, hubVars, events,
                      activeProgressTokens, nextToken, pendingRequests,
                      controllers>>

\* getTask has settled inside the loop.  completed calls getTaskResult;
\* failed and cancelled throw; any other status waits for the poll interval.
PollGot(c, reply) ==
    LET o == ops[c]
    IN /\ o.pc = "pGet"
       /\ reply # "error" => CanAnswer(o.tid)
       /\ activeTasks' = IF reply \in Statuses
                         THEN getTaskUpdate(activeTasks, o.task, reply)
                         ELSE activeTasks
       /\ IF reply = "completed"
          THEN TaskRequest(c, o.op, o.name, o.task, o.source, "tasks/result",
                           "pResult")
          ELSE /\ sent' = sent
               /\ IF reply = "failed" THEN Return(c, TaskFailed)
                  ELSE IF reply = "cancelled" THEN Return(c, TaskCancelled)
                  ELSE IF reply \in Statuses THEN Suspend(c, o, "pDelay")
                  ELSE IF reply = "no task" THEN Return(c, TaskNotFound)
                  ELSE Return(c, "error")
       /\ UNCHANGED <<connections, clients, nextTid, hubVars, events,
                      activeProgressTokens, nextToken, pendingRequests,
                      controllers>>

\* A loop without the timeout check.
PollDelayedNeverTimesOut(c, timedOut) ==
    LET o == ops[c]
    IN /\ o.pc = "pDelay"
       /\ TaskRequest(c, o.op, o.name, o.task, o.source, "tasks/get", "pGet")
       /\ UNCHANGED <<connections, clients, nextTid, hubVars, events,
                      activeProgressTokens, nextToken, activeTasks,
                      pendingRequests, controllers>>

\* delay(pollInterval) has run out: the timeout check, then getTask again.
PollDelayed(c, timedOut) ==
    LET o == ops[c]
    IN /\ o.pc = "pDelay"
       /\ IF timedOut
          THEN /\ Return(c, TaskTimedOut)
               /\ sent' = sent
          ELSE TaskRequest(c, o.op, o.name, o.task, o.source, "tasks/get",
                           "pGet")
       /\ UNCHANGED <<connections, clients, nextTid, hubVars, events,
                      activeProgressTokens, nextToken, activeTasks,
                      pendingRequests, controllers>>

\* getTaskResult has settled inside the loop.
PollResult(c, ok) ==
    /\ ops[c].pc = "pResult"
    /\ ok => CanAnswer(ops[c].tid)
    /\ IF ok
       THEN /\ activeProgressTokens' =
                 resultCleanupTokens(activeProgressTokens, activeTasks,
                                     ops[c].task)
            /\ activeTasks' = [activeTasks EXCEPT ![ops[c].task] = NoTask]
       ELSE UNCHANGED <<activeProgressTokens, activeTasks>>
    /\ Return(c, IF ok THEN "result" ELSE "error")
    /\ UNCHANGED <<connVars, hubVars, nextToken, pendingRequests, controllers>>

\* ------------------------------------------------------ inbound notifications
\* Every client gets the same handlers (connectToServer); they read the Maps
\* of the hub.  A notification arrives over an open transport.
Receives(t) == clients[t].transport = "open"

\* What providerRef.deref() gives a handler: nothing, a provider whose
\* postMessageToWebview resolves, or one whose postMessageToWebview rejects.
Hosts == {"none", "ok", "fails"}

\* One observer reached by a handler: the console (kind "warn", "console"),
\* the progress callback (kind "callback") or the webview (kind = the type
\* of the message posted).  value is what it was handed, stored is what the
\* tracker held when it was called, ok is whether the observer returned
\* normally.  console.log and console.debug diagnostics are left out.
Effect(kind, value, stored, ok) ==
    [kind |-> kind, value |-> value, stored |-> stored, ok |-> ok]

\* The webview part of a handler: nothing without a provider.
Forward(host, kind, value, stored) ==
    IF host = "none" THEN <<>>
    ELSE <<Effect(kind, value, stored, host = "ok")>>

\* A handler that posts to the webview before it looks the token up.
ProgressNotificationPostsFirst(t, token, progress, throws, host) ==
    LET tokenData == activeProgressTokens[token]
        updated == [activeProgressTokens EXCEPT ![token].lastProgress = progress]
        warned == IF progress < tokenData.lastProgress
                  THEN <<Effect("warn", progress, tokenData.lastProgress, TRUE)>>
                  ELSE <<>>
        called == IF tokenData.callback
                  THEN <<Effect("callback", progress,
                                updated[token].lastProgress, ~throws)>>
                  ELSE <<>>
        posted == Forward(host, "mcpProgress", progress,
                          tokenData.lastProgress)
    IN /\ Receives(t)
       /\ IF HasToken(activeProgressTokens, token)
          THEN /\ activeProgressTokens' = updated
               /\ observed' = posted \o warned \o called
          ELSE /\ activeProgressTokens' = activeProgressTokens
               /\ observed' = posted
       /\ UNCHANGED <<connVars, hubVars, ops, nextToken, activeTasks, pendingRequests,
                      controllers, outcome>>

\* A handler that holds progress monotonic: a regression is dropped.
ProgressNotificationClamps(t, token, progress, throws, host) ==
    LET tokenData == activeProgressTokens[token]
        kept == IF progress < tokenData.lastProgress
                THEN tokenData.lastProgress ELSE progress
        updated == [activeProgressTokens EXCEPT ![token].lastProgress = kept]
        warned == IF progress < tokenData.lastProgress
                  THEN <<Effect("warn", progress, tokenData.lastProgress, TRUE)>>
                  ELSE <<>>
        called == IF tokenData.callback /\ progress >= tokenData.lastProgress
                  THEN <<Effect("callback", kept,
                                updated[token].lastProgress, ~throws)>>
                  ELSE <<>>
        posted == IF tokenData.callback /\ throws THEN <<>>
                  ELSE Forward(host, "mcpProgress", kept,
                               updated[token].lastProgress)
    IN /\ Receives(t)
       /\ IF HasToken(activeProgressTokens, token)
          THEN /\ activeProgressTokens' = updated
               /\ observed' = warned \o called \o posted
          ELSE /\ activeProgressTokens' = activeProgressTokens
               /\ observed' = <<>>
       /\ UNCHANGED <<connVars, hubVars, ops, nextToken, activeTasks, pendingRequests,
                      controllers, outcome>>

\* notifications/progress.  throws is whether the registered callback throws
\* when called; nothing catches it, so it ends the handler.
ProgressNotification(t, token, progress, throws, host) ==
    LET tokenData == activeProgressTokens[token]
        updated == [activeProgressTokens EXCEPT ![token].lastProgress = progress]
        warned == IF progress < tokenData.lastProgress
                  THEN <<Effect("warn", progress, tokenData.lastProgress, TRUE)>>
                  ELSE <<>>
        called == IF tokenData.callback
                  THEN <<Effect("callback", progress,
                                updated[token].lastProgress, ~throws)>>
                  ELSE <<>>
        posted == IF tokenData.callback /\ throws THEN <<>>
                  ELSE Forward(host, "mcpProgress", progress,
                               updated[token].lastProgress)
    IN /\ Receives(t)
       /\ IF HasToken(activeProgressTokens, token)
          THEN /\ activeProgressTokens' = updated
               /\ observed' = warned \o called \o posted
          ELSE /\ activeProgressTokens' = activeProgressTokens
               /\ observed' = <<>>
       /\ UNCHANGED <<connVars, hubVars, ops, nextToken, activeTasks, pendingRequests,
                      controllers, outcome>>

abort(ctrls, k) == [ctrls EXCEPT ![k].aborts = @ + 1]

\* A handler that, for an id it does not know, falls back to the request
\* registered last.
CancelledNotificationFallsBack(t, requestId) ==
    /\ Receives(t)
    /\ IF HasPending(pendingRequests, requestId)
       THEN /\ controllers' =
                 abort(controllers, pendingRequests[requestId].controller)
            /\ pendingRequests' =
                 [pendingRequests EXCEPT ![requestId] = NoPending]
       ELSE /\ controllers' =
                 IF controllers = <<>> THEN controllers
                 ELSE abort(controllers, Len(controllers))
            /\ pendingRequests' = pendingRequests
    /\ observed' = <<>>
    /\ UNCHANGED <<connVars, hubVars, ops, activeProgressTokens, nextToken, activeTasks,
                   outcome>>

\* A handler that aborts the controller and keeps the entry.
CancelledNotificationKeepsEntry(t, requestId) ==
    /\ Receives(t)
    /\ IF HasPending(pendingRequests, requestId)
       THEN controllers' =
              abort(controllers, pendingRequests[requestId].controller)
       ELSE controllers' = controllers
    /\ observed' = <<>>
    /\ UNCHANGED <<connVars, hubVars, ops, activeProgressTokens, nextToken, activeTasks,
                   pendingRequests, outcome>>

\* notifications/cancelled
CancelledNotification(t, requestId) ==
    /\ Receives(t)
    /\ IF HasPending(pendingRequests, requestId)
       THEN /\ controllers' =
                 abort(controllers, pendingRequests[requestId].controller)
            /\ pendingRequests' =
                 [pendingRequests EXCEPT ![requestId] = NoPending]
       ELSE UNCHANGED <<controllers, pendingRequests>>
    /\ observed' = <<>>
    /\ UNCHANGED <<connVars, hubVars, ops, activeProgressTokens, nextToken, activeTasks,
                   outcome>>

\* A handler that keeps the status only when there is a webview to tell.
TaskStatusNotificationNeedsHost(t, taskId, status, host) ==
    LET updated == [activeTasks EXCEPT ![taskId].status = status]
    IN /\ Receives(t)
       /\ IF HasTask(activeTasks, taskId) /\ host # "none"
          THEN /\ activeTasks' = updated
               /\ observed' = Forward(host, "mcpTaskStatus", status,
                                      updated[taskId].status)
          ELSE /\ activeTasks' = activeTasks
               /\ observed' = <<>>
       /\ UNCHANGED <<connVars, hubVars, ops, activeProgressTokens, nextToken,
                      pendingRequests, controllers, outcome>>

\* notifications/tasks/status
TaskStatusNotification(t, taskId, status, host) ==
    LET updated == [activeTasks EXCEPT ![taskId].status = status]
    IN /\ Receives(t)
       /\ IF HasTask(activeTasks, taskId)
          THEN /\ activeTasks' = updated
               /\ observed' = Forward(host, "mcpTaskStatus", status,
                                      updated[taskId].status)
          ELSE /\ activeTasks' = activeTasks
               /\ observed' = <<>>
       /\ UNCHANGED <<connVars, hubVars, ops, activeProgressTokens, nextToken,
                      pendingRequests, controllers, outcome>>

\* notifications/message.  The handler belongs to the client of transport t
\* and looks its (name, source) up again after the message was posted; a
\* rejecting postMessageToWebview ends it before that.
LogLevels == {"info", "warning", "error"}

LogData == [text |-> "log data", len |-> 8]

LoggingMessageNotification(t, level, host) ==
    LET i == findConnection(clients[t].name, clients[t].source)
        recorded == level \in {"warning", "error"} /\ i # 0 /\ host # "fails"
    IN /\ Receives(t)
       /\ recorded => Len(connections[i].errorHistory) < MaxLogs
       /\ connections' =
            IF recorded
            THEN [connections EXCEPT
                    ![i] = appendErrorMessage(@, LogData,
                               IF level = "warning" THEN "warn" ELSE "error")]
            ELSE connections
       /\ observed' = <<Effect("console", level, level, TRUE)>>
                         \o Forward(host, "mcpLogMessage", level, level)
       /\ UNCHANGED <<clients, nextTid, hubVars, sent, events, ops,
                      activeProgressTokens, nextToken, activeTasks,
                      pendingRequests, controllers, outcome>>

\* notifications/resources/list_changed, tools/list_changed and
\* prompts/list_changed: the list is fetched again over the entry
\* findConnection returns, then the webview is told of the servers.
ListMethods == {"resources/list", "tools/list", "prompts/list"}

Refreshes(i) == i # 0 /\ connections[i].type = "connected"

Refetch(i, list) ==
    IF Refreshes(i) /\ CanSend(connections[i].tid)
    THEN Request(connections[i].tid, list)
    ELSE sent

ListChangedNotification(t, list, host) ==
    LET i == findConnection(clients[t].name, clients[t].source)
    IN /\ Receives(t)
       /\ sent' = Refetch(i, list)
       /\ observed' = IF Refreshes(i)
                      THEN Forward(host, "mcpServers", list, list)
                      ELSE <<>>
       /\ UNCHANGED <<connections, clients, nextTid, hubVars, events, ops,
                      activeProgressTokens, nextToken, activeTasks,
                      pendingRequests, controllers, outcome>>

\* notifications/resources/updated: posted to the webview, then the
\* resources are fetched again; a rejecting post is caught and ends it.
ResourceUpdatedNotification(t, host) ==
    LET i == findConnection(clients[t].name, clients[t].source)
        refresh == host # "fails" /\ Refreshes(i)
    IN /\ Receives(t)
       /\ sent' = IF refresh THEN Refetch(i, "resources/list") ELSE sent
       /\ observed' =
            Forward(host, "mcpResourceUpdated", "uri", "uri")
            \o (IF refresh
                THEN Forward(host, "mcpServers", "resources/list",
                             "resources/list")
                ELSE <<>>)
       /\ UNCHANGED <<connections, clients, nextTid, hubVars, events, ops,
                      activeProgressTokens, nextToken, activeTasks,
                      pendingRequests, controllers, outcome>>

\* ------------------------------------------------- stderr of a stdio server
\* What a server writes to stderr: a short line, and one longer than
\* MAX_ERROR_LENGTH.
StderrOutputs ==
    { [text |-> "stderr", len |-> 6],
      [text |-> "stderr", len |-> MAX_ERROR_LENGTH + 1] }

\* How many entries of a history came from stderr.
StderrCount(h) ==
    Cardinality({j \in DOMAIN h : h[j].message.text = "stderr"})

\* stderrStream.on("data"): a line that does not read INFO is appended to
\* the error history of the entry findConnection returns, and the webview
\* is told if that entry is disconnected.
StderrData(t, output, isInfoLog, host) ==
    LET i == findConnection(clients[t].name, clients[t].source)
        recorded == ~isInfoLog /\ i # 0
    IN /\ clients[t].transport = "open"
       /\ recorded => StderrCount(connections[i].errorHistory) < MaxStderr
       /\ connections' =
            IF recorded
            THEN [connections EXCEPT
                    ![i] = appendErrorMessage(@, output, "error")]
            ELSE connections
       /\ observed' =
            IF recorded /\ connections[i].status = "disconnected"
            THEN Forward(host, "mcpServers", "error", "error")
            ELSE <<>>
       /\ UNCHANGED <<clients, nextTid, hubVars, sent, events, ops,
                      activeProgressTokens, nextToken, activeTasks,
                      pendingRequests, controllers, outcome>>

\* ---------------------------------------------- requests of the peer
\* What the user answers to task.ask("use_mcp_server", ...).
Responses == {"yesButtonClicked", "noButtonClicked"}

\* The results and errors the two handlers answer the peer with.
Decline == "decline"
Accept == "accept"
NoProvider == "InternalError: No active provider for sampling request"
NoTaskForSampling == "InternalError: No active task for sampling request"
SamplingDeclined == "InvalidRequest: User declined sampling request"
SamplingFailed == "InternalError: Failed to process sampling request"
SamplingMessage == "message"

\* Whether the handler got as far as asking the user.
Asked(type, provider, task) ==
    IF provider /\ task THEN <<Effect("ask", type, type, TRUE)>> ELSE <<>>

\* A sampling handler that reports a refusal as a failure of the request.
SamplingRequestHidesRefusal(t, augmented, provider, task, response, llm) ==
    /\ Receives(t)
    /\ outcome' = IF ~provider THEN NoProvider
                  ELSE IF ~task THEN NoTaskForSampling
                  ELSE IF response = "noButtonClicked" THEN TaskCancelled
                  ELSE IF ~llm THEN SamplingFailed
                  ELSE SamplingMessage
    /\ observed' = Asked("mcp_sampling", provider, task)
    /\ UNCHANGED <<connVars, hubVars, ops, activeProgressTokens, nextToken,
                   activeTasks, pendingRequests, controllers>>

\* elicitation/create.  augmented is whether the request carries the task
\* field, which the handler does not read; provider and task are whether
\* there is a provider and a current task, url is whether the request is in
\* URL mode, parses is whether the text the user submitted is JSON.  The
\* answer is what the handler returns once task.ask has resolved.
ElicitationRequest(t, augmented, provider, task, url, response, parses) ==
    /\ Receives(t)
    /\ outcome' = IF ~provider \/ ~task \/ url THEN Decline
                  ELSE IF response = "noButtonClicked" THEN Decline
                  ELSE IF parses THEN Accept
                  ELSE Decline
    /\ observed' = Asked("mcp_elicitation", provider, task /\ ~url)
    /\ UNCHANGED <<connVars, hubVars, ops, activeProgressTokens, nextToken,
                   activeTasks, pendingRequests, controllers>>

\* sampling/createMessage.  augmented is whether the request carries the
\* task field, which the handler does not read; llm is whether the
\* completion succeeded.
SamplingRequest(t, augmented, provider, task, response, llm) ==
    /\ Receives(t)
    /\ outcome' = IF ~provider THEN NoProvider
                  ELSE IF ~task THEN NoTaskForSampling
                  ELSE IF response = "noButtonClicked" THEN SamplingDeclined
                  ELSE IF ~llm THEN SamplingFailed
                  ELSE SamplingMessage
    /\ observed' = Asked("mcp_sampling", provider, task)
    /\ UNCHANGED <<connVars, hubVars, ops, activeProgressTokens, nextToken,
                   activeTasks, pendingRequests, controllers>>

\* ------------------------------------------------------ request cancellation
registerCancellableRequest(serverName, requestId) ==
    /\ Len(controllers) < MaxControllers
    /\ controllers' = Append(controllers, [aborts |-> 0])
    /\ pendingRequests' =
         [pendingRequests EXCEPT ![requestId] =
             [serverName |-> serverName, controller |-> Len(controllers) + 1]]
    /\ UNCHANGED <<connVars, hubVars, ops, activeProgressTokens, nextToken, activeTasks,
                   outcome, observed>>

unregisterRequest(requestId) ==
    /\ pendingRequests' = [pendingRequests EXCEPT ![requestId] = NoPending]
    /\ UNCHANGED <<connVars, hubVars, ops, activeProgressTokens, nextToken, activeTasks,
                   controllers, outcome, observed>>

\* ------------------------------------------------------ resource subscriptions
Uris == {"u1", "u2"}

\* `${serverName}:${source ?? "global"}`
ServerKey(serverName, source) ==
    <<serverName, IF source = NoSource THEN "global" ELSE source>>

\* What subscribeToResource and unsubscribeFromResource throw themselves.
NoConnectionFound == "Error: No connection found for server"
ServerDisabled == "Error: Server is disabled"
NoSubscriptions == "Error: Server does not support resource subscriptions"

\* A subscribeToResource that does not look at the capabilities.
StartSubscribeUnchecked(c, name, uri, source) ==
    LET i == findConnection(name, source)
        tid == connections[i].tid
        rec == [Idle EXCEPT !.op = "subscribeToResource", !.name = name,
                            !.source = source, !.tid = tid, !.uri = uri]
    IN /\ Free(c)
       /\ IF i = 0 \/ connections[i].type # "connected"
          THEN Return(c, NoConnectionFound) /\ sent' = sent
          ELSE IF connections[i].disabled
          THEN Return(c, ServerDisabled) /\ sent' = sent
          ELSE IF CanSend(tid)
          THEN /\ sent' = Request(tid, "resources/subscribe")
               /\ Suspend(c, rec, "sWait")
          ELSE Return(c, "error") /\ sent' = sent
       /\ UNCHANGED <<connections, clients, nextTid, events,
                      activeProgressTokens, nextToken, activeTasks,
                      pendingRequests, controllers>>

\* subscribeToResource up to its request: the connection, the disabled flag
\* and the resources.subscribe capability are checked before anything is
\* sent.
StartSubscribe(c, name, uri, source) ==
    LET i == findConnection(name, source)
        tid == connections[i].tid
        rec == [Idle EXCEPT !.op = "subscribeToResource", !.name = name,
                            !.source = source, !.tid = tid, !.uri = uri]
    IN /\ Free(c)
       /\ IF i = 0 \/ connections[i].type # "connected"
          THEN Return(c, NoConnectionFound) /\ sent' = sent
          ELSE IF connections[i].disabled
          THEN Return(c, ServerDisabled) /\ sent' = sent
          ELSE IF ~clients[tid].subscribe
          THEN Return(c, NoSubscriptions) /\ sent' = sent
          ELSE IF CanSend(tid)
          THEN /\ sent' = Request(tid, "resources/subscribe")
               /\ Suspend(c, rec, "sWait")
          ELSE Return(c, "error") /\ sent' = sent
       /\ UNCHANGED <<connections, clients, nextTid, events,
                      activeProgressTokens, nextToken, activeTasks,
                      pendingRequests, controllers>>

\* The subscribe request has settled: the uri is recorded on success.
SubscribeReturned(c, ok) ==
    LET o == ops[c]
    IN /\ o.pc = "sWait"
       /\ ok => CanAnswer(o.tid)
       /\ resourceSubscriptions' =
            IF ok
            THEN resourceSubscriptions
                   \cup {<<ServerKey(o.name, o.source), o.uri>>}
            ELSE resourceSubscriptions
       /\ ops' = [ops EXCEPT ![c] = Idle]
       /\ outcome' = IF ok THEN "subscribed" ELSE "error"
       /\ UNCHANGED <<connVars, activeProgressTokens, nextToken, activeTasks,
                      pendingRequests, controllers, observed, isConnecting,
                      isDisposed>>

\* unsubscribeFromResource up to its request.
StartUnsubscribe(c, name, uri, source) ==
    LET i == findConnection(name, source)
        tid == connections[i].tid
        rec == [Idle EXCEPT !.op = "unsubscribeFromResource", !.name = name,
                            !.source = source, !.tid = tid, !.uri = uri]
    IN /\ Free(c)
       /\ IF i = 0 \/ connections[i].type # "connected"
          THEN Return(c, NoConnectionFound) /\ sent' = sent
          ELSE IF connections[i].disabled
          THEN Return(c, ServerDisabled) /\ sent' = sent
          ELSE IF CanSend(tid)
          THEN /\ sent' = Request(tid, "resources/unsubscribe")
               /\ Suspend(c, rec, "uWait")
          ELSE Return(c, "error") /\ sent' = sent
       /\ UNCHANGED <<connections, clients, nextTid, events,
                      activeProgressTokens, nextToken, activeTasks,
                      pendingRequests, controllers>>

\* The unsubscribe request has settled: the uri is forgotten on success.
UnsubscribeReturned(c, ok) ==
    LET o == ops[c]
    IN /\ o.pc = "uWait"
       /\ ok => CanAnswer(o.tid)
       /\ resourceSubscriptions' =
            IF ok
            THEN resourceSubscriptions
                   \ {<<ServerKey(o.name, o.source), o.uri>>}
            ELSE resourceSubscriptions
       /\ ops' = [ops EXCEPT ![c] = Idle]
       /\ outcome' = IF ok THEN "unsubscribed" ELSE "error"
       /\ UNCHANGED <<connVars, activeProgressTokens, nextToken, activeTasks,
                      pendingRequests, controllers, observed, isConnecting,
                      isDisposed>>

\* ------------------------------------------- notifyWebviewOfServerChanges
taskVars == <<activeProgressTokens, nextToken, activeTasks, pendingRequests,
              controllers>>

\* The status the server list shows for (name, source) when it is posted.
ServerStatus(name, source) ==
    LET i == findConnection(name, source)
    IN IF i = 0 THEN "absent" ELSE connections[i].status

\* notifyWebviewOfServerChanges as its caller awaits it: the list is posted
\* when there is a provider; reading or parsing the settings file may throw
\* before that, and the exception reaches the caller.
Notified(name, source, host, throws) ==
    IF throws THEN observed
    ELSE Forward(host, "mcpServers", ServerStatus(name, source),
                 ServerStatus(name, source))

\* ------------------------------------------------------- nested connectToServer
\* connectToServer(name, cfg, source) awaited by the invocation of c whose
\* record is base: it begins with deleteConnection, as StartConnect does.
connectToServerCall(c, base, name, source, cfg) ==
    /\ nextTid <= MaxTransports
    /\ deleteConnectionCall(
           c, [base EXCEPT !.op = "connectToServer", !.name = name,
                           !.source = source, !.cfg = cfg, !.tid = nextTid],
           name, source, "cEnabled")
    /\ nextTid' = nextTid + 1

\* ---------------------------------------------------------- restartConnection
\* isConnecting = true, then isMcpEnabled() is awaited.
StartRestart(c, name, source) ==
    /\ Free(c)
    /\ isConnecting' = TRUE
    /\ ops' = [ops EXCEPT ![c] =
                  [Idle EXCEPT !.op = "restartConnection", !.pc = "rEnabled",
                               !.name = name, !.source = source]]
    /\ UNCHANGED <<connVars, taskVars, outcome, observed, isDisposed,
                   resourceSubscriptions>>

\* With MCP disabled the flag is reset and the call returns.  Otherwise the
\* entry findConnection returns is marked connecting and the webview is
\* notified; without an entry only the last notification is left.
RestartEnabled(c, mcpEnabled) ==
    LET o == ops[c]
        i == findConnection(o.name, o.source)
    IN /\ o.op = "restartConnection"
       /\ o.pc = "rEnabled"
       /\ IF ~mcpEnabled
          THEN /\ isConnecting' = FALSE
               /\ connections' = connections
               /\ ops' = [ops EXCEPT ![c] = Idle]
          ELSE /\ isConnecting' = isConnecting
               /\ IF i = 0
                  THEN /\ connections' = connections
                       /\ ops' = [ops EXCEPT ![c].pc = "rNotify2"]
                  ELSE /\ connections' =
                            [connections EXCEPT ![i].status = "connecting",
                                                ![i].error = NoError]
                       /\ ops' = [ops EXCEPT
                                    ![c].pc = "rNotify1",
                                    ![c].source = connections[i].source,
                                    ![c].cfg = connections[i].config]
       /\ UNCHANGED <<clients, nextTid, sent, events, taskVars, outcome,
                      observed, isDisposed, resourceSubscriptions>>

\* The first notifyWebviewOfServerChanges has settled; it is awaited outside
\* the try block, so its exception ends restartConnection.
RestartNotified(c, host, throws) ==
    LET o == ops[c]
    IN /\ o.op = "restartConnection"
       /\ o.pc = "rNotify1"
       /\ observed' = Notified(o.name, o.source, host, throws)
       /\ ops' = [ops EXCEPT ![c] = IF throws THEN Idle
                                     ELSE [o EXCEPT !.pc = "rDelay"]]
       /\ UNCHANGED <<connVars, taskVars, outcome, hubVars>>

\* delay(500) has run out: deleteConnection(name, connection.server.source).
RestartDelayed(c) ==
    /\ ops[c].op = "restartConnection"
    /\ ops[c].pc = "rDelay"
    /\ deleteConnectionCall(c, ops[c], ops[c].name, ops[c].source, "rDeleted")
    /\ UNCHANGED <<nextTid, sent, events, trackVars>>

\* The stored configuration is validated and connectToServer is awaited.
RestartDeleted(c) ==
    /\ ops[c].op = "restartConnection"
    /\ ops[c].pc = "rDeleted"
    /\ connectToServerCall(
           c, [ops[c] EXCEPT !.outer = "restartConnection",
                             !.opc = "rNotify2"],
           ops[c].name, ops[c].source, ops[c].cfg)
    /\ UNCHANGED <<sent, events, trackVars>>

\* The last notifyWebviewOfServerChanges has settled: isConnecting = false
\* follows it, outside any try block.
RestartFinished(c, host, throws) ==
    LET o == ops[c]
    IN /\ o.op = "restartConnection"
       /\ o.pc = "rNotify2"
       /\ observed' = Notified(o.name, o.source, host, throws)
       /\ isConnecting' = IF throws THEN isConnecting ELSE FALSE
       /\ ops' = [ops EXCEPT ![c] = Idle]
       /\ UNCHANGED <<connVars, taskVars, outcome, isDisposed,
                      resourceSubscriptions>>

\* ---------------------------------------------------- updateServerConnections
\* No configuration under a name, and the configurations newServers holds:
\* the parsed one a server is connected with, the same as it stands in the
\* settings file (no timeout written), and a different one.
NoConfig == [type |-> "none", disabled |-> FALSE, timeout |-> 0]

RawConfigs ==
    { StdioConfig,
      [type |-> "stdio", disabled |-> FALSE, timeout |-> 0],
      [type |-> "sse", disabled |-> FALSE, timeout |-> DEFAULT_TIMEOUT] }

NewServers ==
    { [n \in Names |-> IF n = "a" THEN x ELSE y] :
        x \in RawConfigs \cup {NoConfig}, y \in {NoConfig, StdioConfig} }

\* validateServerConfig: ServerConfigSchema.parse fills in the defaults.
validateServerConfig(cfg) ==
    [cfg EXCEPT !.timeout = IF @ = 0 THEN DEFAULT_TIMEOUT ELSE @]

Item(kind, name, source) == [kind |-> kind, name |-> name, source |-> source]

\* for (const conn of [...this.connections]): one deletion per entry.
AllRemovals ==
    [i \in DOMAIN connections |->
        Item("remove", connections[i].name, connections[i].source)]

\* The names connected under source that newServers no longer holds, each
\* once, in the order of the list.
RECURSIVE RemovalsFrom(_, _, _, _)
RemovalsFrom(i, servers, source, seen) ==
    IF i > Len(connections) THEN <<>>
    ELSE LET n == connections[i].name
         IN IF connections[i].source = source /\ n \notin seen
            THEN (IF servers[n] = NoConfig
                  THEN <<Item("remove", n, source)>>
                  ELSE <<>>)
                 \o RemovalsFrom(i + 1, servers, source, seen \cup {n})
            ELSE RemovalsFrom(i + 1, servers, source, seen)

Removals(servers, source) == RemovalsFrom(1, servers, source, {})

\* Object.entries(newServers), in the order of the names.
ConfigItems(servers, source) ==
    LET held(n) == servers[n] # NoConfig
    IN [k \in DOMAIN SelectSeq(<<"a", "b">>, held) |->
          Item("config", SelectSeq(<<"a", "b">>, held)[k], source)]

\* An entry of newServers that is left alone: there is a connection and
\* deepEqual(JSON.parse(currentConnection.server.config), config) holds.
NoOp(item, servers) ==
    LET i == findConnection(item.name, item.source)
    IN /\ item.kind = "config"
       /\ i # 0
       /\ connections[i].config = servers[item.name]

RECURSIVE SkipNoOps(_, _)
SkipNoOps(todo, servers) ==
    IF todo = <<>> THEN <<>>
    ELSE IF NoOp(Head(todo), servers) THEN SkipNoOps(Tail(todo), servers)
    ELSE todo

\* The loops of updateServerConnections up to their next await: a removed
\* server is deleted, a new one connected, a changed one deleted and then
\* connected; after the last entry notifyWebviewOfServerChanges is awaited.
UpdateStep(c, rec) ==
    LET todo == SkipNoOps(rec.todo, rec.servers)
    IN IF todo = <<>>
       THEN /\ ops' = [ops EXCEPT ![c] = [rec EXCEPT !.todo = <<>>,
                                                      !.pc = "uNotify"]]
            /\ UNCHANGED <<connections, clients, nextTid>>
       ELSE LET item == Head(todo)
                next == [rec EXCEPT !.todo = Tail(todo)]
                cfg == validateServerConfig(rec.servers[item.name])
            IN IF item.kind = "remove"
               THEN /\ deleteConnectionCall(c, next, item.name, item.source,
                                            "uStep")
                    /\ nextTid' = nextTid
               ELSE IF findConnection(item.name, item.source) = 0
               THEN connectToServerCall(
                        c, [next EXCEPT !.outer = rec.op, !.opc = "uStep"],
                        item.name, item.source, cfg)
               ELSE /\ deleteConnectionCall(
                           c, [next EXCEPT !.name = item.name,
                                           !.source = item.source,
                                           !.cfg = cfg],
                           item.name, item.source, "uReconnect")
                    /\ nextTid' = nextTid

StartUpdate(c, servers, source, manage) ==
    /\ Free(c)
    /\ isConnecting' = IF manage THEN TRUE ELSE isConnecting
    /\ UpdateStep(c, [Idle EXCEPT
                        !.op = "updateServerConnections", !.source = source,
                        !.servers = servers, !.manage = manage,
                        !.todo = Removals(servers, source)
                                   \o ConfigItems(servers, source)])
    /\ UNCHANGED <<sent, events, taskVars, outcome, observed, isDisposed,
                   resourceSubscriptions>>

\* The deleteConnection or connectToServer the loop awaited has settled.
UpdateContinue(c) ==
    /\ ops[c].pc = "uStep"
    /\ UpdateStep(c, ops[c])
    /\ UNCHANGED <<sent, events, trackVars>>

\* A changed server has been deleted: connectToServer with the new
\* configuration.
UpdateReconnect(c) ==
    /\ ops[c].pc = "uReconnect"
    /\ connectToServerCall(
           c, [ops[c] EXCEPT !.outer = ops[c].op, !.opc = "uStep"],
           ops[c].name, ops[c].source, ops[c].cfg)
    /\ UNCHANGED <<sent, events, trackVars>>

\* notifyWebviewOfServerChanges at the end of updateServerConnections has
\* settled; it is awaited outside any try block.  Called on its own, the
\* flag is reset after it; inside refreshAllConnections the caller
\* (initializeMcpServers) catches what it throws.
UpdateNotified(c, host, throws) ==
    LET o == ops[c]
    IN /\ o.pc = "uNotify"
       /\ observed' = Notified(o.name, o.source, host, throws)
       /\ IF o.top = "none"
          THEN /\ ops' = [ops EXCEPT ![c] = Idle]
               /\ isConnecting' = IF o.manage /\ ~throws THEN FALSE
                                  ELSE isConnecting
          ELSE /\ ops' = [ops EXCEPT ![c].pc = "fNotify"]
               /\ isConnecting' = isConnecting
       /\ UNCHANGED <<connVars, taskVars, outcome, isDisposed,
                      resourceSubscriptions>>

\* ------------------------------------------------------ refreshAllConnections
\* A refresh is skipped while isConnecting is set; else isMcpEnabled() is
\* awaited.
StartRefresh(c) ==
    /\ Free(c)
    /\ IF isConnecting
       THEN /\ outcome' = "skipped"
            /\ ops' = ops
       ELSE /\ outcome' = outcome
            /\ ops' = [ops EXCEPT ![c] =
                          [Idle EXCEPT !.op = "refreshAllConnections",
                                       !.pc = "fEnabled"]]
    /\ UNCHANGED <<connVars, taskVars, observed, hubVars>>

\* Every connection is deleted and the servers of the global settings file
\* are set up again (there is no project file).  With MCP enabled this runs
\* with the flag set, inside try / finally.
RefreshEnabled(c, mcpEnabled, servers) ==
    /\ ops[c].pc = "fEnabled"
    /\ isConnecting' = IF mcpEnabled THEN TRUE ELSE isConnecting
    /\ UpdateStep(c, [ops[c] EXCEPT
                        !.top = IF mcpEnabled THEN "refresh"
                                ELSE "refreshDisabled",
                        !.source = "global", !.servers = servers,
                        !.todo = AllRemovals
                                   \o ConfigItems(servers, "global")])
    /\ UNCHANGED <<sent, events, taskVars, outcome, observed, isDisposed,
                   resourceSubscriptions>>

\* The last notifyWebviewOfServerChanges of the refresh has settled.  With
\* MCP enabled the finally block resets the flag whatever happened.
RefreshFinished(c, host, throws) ==
    LET o == ops[c]
    IN /\ o.pc = "fNotify"
       /\ observed' = Notified(o.name, o.source, host, throws)
       /\ isConnecting' = IF o.top = "refresh" THEN FALSE ELSE isConnecting
       /\ ops' = [ops EXCEPT ![c] = Idle]
       /\ UNCHANGED <<connVars, taskVars, outcome, isDisposed,
                      resourceSubscriptions>>

\* -------------------------------------------------------------------- dispose
\* The loop of dispose up to its next await; after the last deletion
\* this.connections = [].
DisposeStep(c, rec) ==
    IF rec.todo = <<>>
    THEN /\ connections' = <<>>
         /\ clients' = clients
         /\ ops' = [ops EXCEPT ![c] = Idle]
    ELSE deleteConnectionCall(c, [rec EXCEPT !.todo = Tail(rec.todo)],
                              Head(rec.todo).name, Head(rec.todo).source,
                              "xStep")

\* dispose(): nothing when already disposed; else the flag is set, the four
\* maps are cleared and the connections are deleted one after the other.
StartDispose(c) ==
    /\ Free(c)
    /\ IF isDisposed
       THEN UNCHANGED <<connections, clients, ops, isDisposed,
                        activeProgressTokens, pendingRequests, activeTasks,
                        resourceSubscriptions>>
       ELSE /\ isDisposed' = TRUE
            /\ activeProgressTokens' = [k \in Tokens |-> NoToken]
            /\ pendingRequests' = [k \in RequestIds |-> NoPending]
            /\ activeTasks' = [k \in TaskIds |-> NoTask]
            /\ resourceSubscriptions' = {}
            /\ DisposeStep(c, [Idle EXCEPT !.op = "dispose",
                                           !.todo = AllRemovals])
    /\ UNCHANGED <<nextTid, sent, events, nextToken, controllers, outcome,
                   observed, isConnecting>>

\* The deleteConnection the loop awaited has settled.
DisposeContinue(c) ==
    /\ ops[c].pc = "xStep"
    /\ DisposeStep(c, ops[c])
    /\ UNCHANGED <<nextTid, sent, events, trackVars>>

\* ----------------------------------------------------------- the tracker hub
Replies == Statuses \cup {"no task", "error"}

\* Teardown of a connection, as it runs next to the trackers.
TeardownNext ==
    \/ \E c \in Callers :
        \/ \E name \in Names : StartDelete(c, name, NoSource)
        \/ DeleteClosed(c)
    \/ \E t \in TransportIds :
        \/ TransportError(t)
        \/ TransportClose(t)

\* The task operations of the callers.
TaskOps ==
    \/ \E c \in TaskCallers, name \in Names :
        \/ \E withCallback \in BOOLEAN :
             StartCallToolAsTask(c, name, NoSource, withCallback)
        \/ \E taskId \in TaskIds :
             \/ StartGetTask(c, name, taskId, NoSource)
             \/ StartGetTaskResult(c, name, taskId, NoSource)
             \/ StartCancelTask(c, name, taskId, NoSource)
             \/ StartPoll(c, name, taskId, NoSource)
    \/ \E c \in TaskCallers :
        \/ \E ok \in BOOLEAN :
             \/ CallToolAsTaskPlain(c, ok)
             \/ CallToolAsTaskResult(c, ok)
             \/ GetTaskResultReturned(c, ok)
             \/ CancelTaskReturned(c, ok)
             \/ PollDelayed(c, ok)
             \/ PollResult(c, ok)
        \/ \E taskId \in TaskIds, status \in Statuses :
             CallToolAsTaskCreated(c, taskId, status)
        \/ \E reply \in Replies :
             \/ GetTaskReturned(c, reply)
             \/ PollGot(c, reply)

\* Tasks and the tokens of their calls next to teardown, in a hub whose
\* provider is gone; the progress of the tokens is followed in SpecNotify.
TaskNext ==
    \/ TaskOps
    \/ \E t \in TransportIds, taskId \in TaskIds, status \in Statuses :
         TaskStatusNotification(t, taskId, status, "none")
    \/ TeardownNext

SpecTask == TrackInit /\ [][TaskNext]_vars

\* Tasks, their progress tokens and the notifications about them, with
\* every provider and every callback behaviour.  The notifications arrive
\* from "a", the peer that declares tasks.
NotifyNext ==
    \/ TaskOps
    \/ \E token \in Tokens, progress \in 0 .. MaxProgress,
          throws \in BOOLEAN, host \in Hosts :
         ProgressNotification(1, token, progress, throws, host)
    \/ \E taskId \in TaskIds, status \in Statuses, host \in Hosts :
         TaskStatusNotification(1, taskId, status, host)

SpecNotify == TrackInit /\ [][NotifyNext]_vars

\* The three notifications the trackers handle themselves, arriving from
\* "a" with every provider, over the tokens and tasks of callToolAsTask and
\* the requests registered for "a".
InlineNext ==
    \/ \E c \in TaskCallers :
        \/ \E withCallback \in BOOLEAN :
             StartCallToolAsTask(c, "a", NoSource, withCallback)
        \/ \E taskId \in TaskIds, status \in Statuses :
             CallToolAsTaskCreated(c, taskId, status)
    \/ registerCancellableRequest("a", "r1")
    \/ unregisterRequest("r1")
    \/ CancelledNotification(1, "r1")
    \/ \E token \in Tokens, progress \in 0 .. MaxProgress,
          throws \in BOOLEAN, host \in Hosts :
         ProgressNotification(1, token, progress, throws, host)
    \/ \E taskId \in TaskIds, status \in Statuses, host \in Hosts :
         TaskStatusNotification(1, taskId, status, host)

SpecInline == TrackInit /\ [][InlineNext]_vars

\* The task operations next to the requests the peer puts to the user.
AskNext ==
    \/ TaskOps
    \/ \E t \in TransportIds, augmented \in BOOLEAN, provider \in BOOLEAN,
          task \in BOOLEAN, response \in Responses :
        \/ \E url \in BOOLEAN, parses \in BOOLEAN :
             ElicitationRequest(t, augmented, provider, task, url, response,
                                parses)
        \/ \E llm \in BOOLEAN :
             SamplingRequest(t, augmented, provider, task, response, llm)

SpecAsk == TrackInit /\ [][AskNext]_vars

\* The notifications the hub passes on, next to teardown.
ForwardNext ==
    \/ \E t \in TransportIds, host \in Hosts :
        \/ \E level \in LogLevels : LoggingMessageNotification(t, level, host)
        \/ \E list \in ListMethods : ListChangedNotification(t, list, host)
        \/ ResourceUpdatedNotification(t, host)
    \/ TeardownNext

SpecForward == TrackInit /\ [][ForwardNext]_vars

\* Cancellable requests.
ReqNext ==
    \/ \E requestId \in RequestIds :
        \/ \E name \in Names : registerCancellableRequest(name, requestId)
        \/ unregisterRequest(requestId)
        \/ \E t \in TransportIds : CancelledNotification(t, requestId)
        \/ \E name \in Names : sendCancellation(name, requestId, NoSource)
    \/ TeardownNext

SpecReq == TrackInit /\ [][ReqNext]_vars

\* Subscriptions next to teardown.
SubscribeNext ==
    \/ \E c \in TaskCallers :
        \/ \E name \in Names, uri \in Uris, source \in {NoSource, "global"} :
             \/ StartSubscribe(c, name, uri, source)
             \/ StartUnsubscribe(c, name, uri, source)
        \/ \E ok \in BOOLEAN :
             \/ SubscribeReturned(c, ok)
             \/ UnsubscribeReturned(c, ok)
    \/ TeardownNext

SpecSubscribe == TrackInit /\ [][SubscribeNext]_vars

\* The hub with "a" of the global settings connected and "b" of the project
\* settings disabled.
HubInit ==
    /\ connections =
         << [ConnectedConnection("a", StdioConfig, "global", 1)
                EXCEPT !.status = "connected"],
            createPlaceholderConnection(
                "b", [StdioConfig EXCEPT !.disabled = TRUE], "project", TRUE) >>
    /\ clients = [t \in TransportIds |->
                    IF t = 1 THEN ConnectedClient("a", TRUE) ELSE NoClient]
    /\ nextTid = 2
    /\ sent = NoRequest
    /\ events = 0
    /\ ops = [c \in Callers |-> Idle]
    /\ NoTrackers

\* The steps of a connectToServer and of a deleteConnection in flight.
ConnectSteps(c) ==
    \/ DeleteClosed(c)
    \/ ConnectEnabled(c)
    \/ ConnectInjected(c)
    \/ ConnectStarted(c)
    \/ ConnectHandshake(c)
    \/ ConnectFetched(c)

\* The operations that set isConnecting, run one after the other, next to
\* the events of the transports.
HubNext ==
    \/ \E name \in Names, source \in {NoSource, "global"} :
         StartRestart(1, name, source)
    \/ \E servers \in NewServers, manage \in BOOLEAN :
         StartUpdate(1, servers, "global", manage)
    \/ StartRefresh(1)
    \/ \E mcpEnabled \in BOOLEAN :
         \/ RestartEnabled(1, mcpEnabled)
         \/ \E servers \in NewServers : RefreshEnabled(1, mcpEnabled, servers)
    \/ \E host \in Hosts, throws \in BOOLEAN :
         \/ RestartNotified(1, host, throws)
         \/ RestartFinished(1, host, throws)
         \/ UpdateNotified(1, host, throws)
         \/ RefreshFinished(1, host, throws)
    \/ RestartDelayed(1)
    \/ RestartDeleted(1)
    \/ UpdateContinue(1)
    \/ UpdateReconnect(1)
    \/ ConnectSteps(1)
    \/ \E t \in TransportIds :
        \/ TransportError(t)
        \/ TransportClose(t)

SpecHub == HubInit /\ [][HubNext]_vars

\* dispose next to the operations that may be in flight when it runs: a
\* connectToServer, a callToolAsTask, a subscription, a cancellable request.
\* No operation is started on a disposed hub; those already started run on.
DisposeNext ==
    \/ \E c \in Callers :
        \/ StartDispose(c)
        \/ DisposeContinue(c)
        \/ ~isDisposed /\ \E cfg \in Configs : StartConnect(c, "a", "global", cfg)
        \/ ConnectSteps(c)
    \/ \E c \in TaskCallers :
        \/ ~isDisposed /\ \E withCallback \in BOOLEAN :
             StartCallToolAsTask(c, "a", NoSource, withCallback)
        \/ \E taskId \in TaskIds, status \in Statuses :
             CallToolAsTaskCreated(c, taskId, status)
        \/ \E ok \in BOOLEAN :
             \/ CallToolAsTaskPlain(c, ok)
             \/ CallToolAsTaskResult(c, ok)
             \/ SubscribeReturned(c, ok)
        \/ ~isDisposed /\ StartSubscribe(c, "a", "u1", NoSource)
    \/ ~isDisposed /\ registerCancellableRequest("a", "r1")
    \/ \E t \in TransportIds : TransportClose(t)

SpecDispose == HubInit /\ [][DisposeNext]_vars

\* The error history of a server that has been running for a while: "a"
\* has logged n lines before, the j-th of them j characters long.
HistoryFills == {0, MAX_ERROR_HISTORY - 2, MAX_ERROR_HISTORY - 1,
                 MAX_ERROR_HISTORY}

Logged(n) ==
    [j \in 1 .. n |->
        [message |-> [text |-> "old", len |-> j],
         level |-> IF j % 2 = 0 THEN "warn" ELSE "error"]]

HistoryInit ==
    /\ \E n \in HistoryFills :
         connections =
           << [ConnectedConnection("a", StdioConfig, "global", 1)
                  EXCEPT !.status = "connected",
                         !.errorHistory = Logged(n),
                         !.error = IF n = 0 THEN NoError
                                   ELSE [text |-> "old", len |-> n]],
              [ConnectedConnection("b", StdioConfig, "global", 2)
                  EXCEPT !.status = "connected"] >>
    /\ clients = [t \in TransportIds |->
                    IF t = 1 THEN ConnectedClient("a", TRUE)
                    ELSE IF t = 2 THEN ConnectedClient("b", FALSE)
                    ELSE NoClient]
    /\ nextTid = 3
    /\ sent = NoRequest
    /\ events = 0
    /\ ops = [c \in Callers |-> Idle]
    /\ NoTrackers

\* What appends to the error history of a running server.
HistoryNext ==
    \E t \in TransportIds :
        \/ \E output \in StderrOutputs, isInfoLog \in BOOLEAN, host \in Hosts :
             StderrData(t, output, isInfoLog, host)
        \/ TransportError(t)
        \/ TransportClose(t)

SpecHistory == HistoryInit /\ [][HistoryNext]_vars

\* ------------------------------------------------------------------- claims
SameKey(x, y) == x.name = y.name /\ x.source = y.source

\* C2: the connections list never holds two entries of one (name, source).
C2_OneEntryPerKey ==
    \A i, j \in DOMAIN connections :
        i # j => ~SameKey(connections[i], connections[j])

\* C5: a request other than initialize is handed to a transport only after the
\* handshake of that connection has completed.
C5_HandshakeBeforeRequests == sent.method # "initialize" => sent.ready

\* The step in which connectToServer throws, and what it throws there.
ConnectThrows(c) ==
    /\ ops[c].op = "connectToServer"
    /\ ops[c].pc \in {"cInject", "cStart", "cHandshake"}
    /\ ops'[c].pc = "idle"

ThrownAt(pc) ==
    IF pc = "cInject" THEN ErrCreate
    ELSE IF pc = "cStart" THEN ErrStart
    ELSE ErrHandshake

FailureRecorded(conns, name, source, err) ==
    \E i \in DOMAIN conns :
        /\ conns[i].name = name
        /\ conns[i].source = source
        /\ conns[i].status = "disconnected"
        /\ conns[i].errorHistory # <<>>
        /\ conns[i].errorHistory[Len(conns[i].errorHistory)].message = err

\* C10: when connectToServer throws, an entry of (name, source) exists right
\* afterwards, disconnected, with the failure as its newest history entry.
C10_FailedConnectIsRecorded ==
    [][\A c \in Callers :
          ConnectThrows(c) =>
              FailureRecorded(connections', ops[c].name, ops[c].source,
                              ThrownAt(ops[c].pc))]_vars

\* The step is one of the three events that report a status for task k.
StatusEvent(k) ==
    \/ \E t \in TransportIds, s \in Statuses :
         TaskStatusNotification(t, k, s, "none")
    \/ \E c \in TaskCallers :
         /\ ops[c].task = k
         /\ \/ \E r \in Replies : GetTaskReturned(c, r) \/ PollGot(c, r)
            \/ \E ok \in BOOLEAN : CancelTaskReturned(c, ok)

\* C1: no status notification, getTask result or cancelTask changes the status
\* of a task record that is completed, failed or cancelled.
C1_TerminalStatusIsFinal ==
    [][\A k \in TaskIds :
          /\ HasTask(activeTasks, k)
          /\ activeTasks[k].status \in Terminal
          /\ StatusEvent(k)
          => activeTasks'[k].status = activeTasks[k].status]_vars

\* The step in which deleteConnection(name) returns to caller c.
DeleteCompletes(c, name) ==
    /\ ops[c].op = "deleteConnection"
    /\ ops[c].dname = name
    /\ DeleteClosed(c)
    /\ ops'[c].pc = "idle"

\* No tracker entry of server name is live: no pending request, no progress
\* token, and every task of it is failed.
Purged(reqs, tokens, tasks, name) ==
    /\ \A r \in RequestIds : reqs[r].serverName # name
    /\ \A k \in Tokens : tokens[k].serverName # name
    /\ \A k \in TaskIds : tasks[k].serverName = name => tasks[k].status = "failed"

\* C3: when deleteConnection completes, the trackers of that connection are
\* purged.
C3_DeletePurgesTrackers ==
    [][\A c \in Callers, name \in Names :
          DeleteCompletes(c, name) =>
              Purged(pendingRequests', activeProgressTokens', activeTasks',
                     name)]_vars

\* The controller of a registered request, 0 when the id is not registered.
ControllerOf(reqs, requestId) == reqs[requestId].controller

\* Controller k is aborted for the first time and nothing else is.
AbortedOnce(k) ==
    /\ controllers[k].aborts = 0
    /\ controllers' = [controllers EXCEPT ![k].aborts = 1]

\* The step aborts or forgets a controller that exists.
ControllerTouched ==
    \E k \in DOMAIN controllers :
        k \notin DOMAIN controllers' \/ controllers'[k] # controllers[k]

C6_NotificationsStayOnTheirConnection ==
    [][\A t \in TransportIds :
          /\ \A k \in TaskIds, s \in Statuses :
                TaskStatusNotification(t, k, s, "none")
                /\ activeTasks[k].serverName # clients[t].name
                => activeTasks'[k] = activeTasks[k]
          /\ \A k \in Tokens, p \in 0 .. MaxProgress :
                ProgressNotification(t, k, p, FALSE, "none")
                /\ activeProgressTokens[k].serverName # clients[t].name
                => activeProgressTokens'[k] = activeProgressTokens[k]
          /\ \A r \in RequestIds :
                CancelledNotification(t, r)
                /\ pendingRequests[r].serverName # clients[t].name
                => /\ pendingRequests'[r] = pendingRequests[r]
                   /\ controllers' = controllers]_vars

\* Caller c's operation op ends in this step.
Ends(c, op) ==
    /\ ops[c].op = op
    /\ ops[c].pc # "idle"
    /\ ops'[c].pc = "idle"

\* C7: when the operation that owns a progress token ends (callToolAsTask
\* with a plain result or an error; polling with the result of a completed
\* task, a failed task, a cancelled task or a timeout) the token is no longer
\* registered.
C7_TokenReleasedWhenOwnerEnds ==
    [][\A c \in TaskCallers :
          /\ Ends(c, "callToolAsTask") /\ outcome' \in {"result", "error"}
             => ~HasToken(activeProgressTokens', ops[c].token)
          /\ Ends(c, "pollTaskUntilComplete")
             /\ outcome' \in {"result", TaskFailed, TaskCancelled,
                              TaskTimedOut}
             => ~HasToken(activeProgressTokens',
                          activeTasks[ops[c].task].progressToken)]_vars

\* What the event loop owes caller c: the request it awaits settles (the SDK
\* times a request out) and the poll delay runs out.
Continue(c) ==
    \/ \E ok \in BOOLEAN :
         \/ CallToolAsTaskPlain(c, ok)
         \/ CallToolAsTaskResult(c, ok)
         \/ GetTaskResultReturned(c, ok)
         \/ CancelTaskReturned(c, ok)
         \/ PollDelayed(c, ok)
         \/ PollResult(c, ok)
    \/ \E reply \in Replies :
         \/ GetTaskReturned(c, reply)
         \/ PollGot(c, reply)
    \/ DeleteClosed(c)

\* The tracker hub with every timer firing and every await settling.
SpecTaskFair == SpecTask /\ \A c \in Callers : WF_vars(Continue(c))

\* The same, with the clock running: Date.now() - startTime grows with every
\* pass of the polling loop, so the timeout check cannot come out false
\* forever.
SpecPollFair ==
    /\ SpecTask
    /\ \A c \in TaskCallers :
          WF_vars(Continue(c)) /\ SF_vars(PollDelayed(c, TRUE))

\* C8: every task record is eventually removed from activeTasks.
C8_TaskEventuallyPurged ==
    \A k \in TaskIds :
        HasTask(activeTasks, k) ~> ~HasTask(activeTasks, k)

\* C9: cancelTask on a task whose stored status is terminal fails with the
\* invalid-task-transition error and leaves the stored status as it was.
C9_CancelOfTerminalTaskFails ==
    [][\A c \in TaskCallers :
          /\ Ends(c, "cancelTask")
          /\ HasTask(activeTasks, ops[c].task)
          /\ activeTasks[ops[c].task].status \in Terminal
          => /\ outcome' = "invalid task transition"
             /\ activeTasks'[ops[c].task] = activeTasks[ops[c].task]]_vars

\* C11: no transport is open without a registry entry that holds it; in
\* particular connectToServer leaves no open transport behind unregistered.
C11_OpenTransportHasEntry ==
    \A t \in TransportIds : clients[t].transport = "open" => IndexOfTid(t) # 0

\* The newest entry of the error history of conn is err.
NewestError(conn, err) ==
    /\ conn.errorHistory # <<>>
    /\ conn.errorHistory[Len(conn.errorHistory)].message = err

\* C12: when onerror or onclose of a transport fires while the registry has
\* an entry for the (name, source) of that connection, the entry is
\* disconnected right afterwards, whatever the callers are doing, and for
\* onerror the message is its newest history entry.
C12_TransportEventDisconnects ==
    [][\A t \in TransportIds :
          LET i == findConnection(clients[t].name, clients[t].source)
          IN /\ TransportError(t) /\ i # 0
                => /\ connections'[i].status = "disconnected"
                   /\ NewestError(connections'[i], ErrTransport)
             /\ TransportClose(t) /\ i # 0
                => connections'[i].status = "disconnected"]_vars

\* A transport error has disconnected the entry of a connection whose
\* connectToServer is still awaiting the handshake.
C12_DisconnectedDuringHandshake ==
    \E c \in Callers :
        /\ ops[c].pc = "cHandshake"
        /\ IndexOfTid(ops[c].tid) # 0
        /\ connections[IndexOfTid(ops[c].tid)].status = "disconnected"
        /\ NewestError(connections[IndexOfTid(ops[c].tid)], ErrTransport)

\* C13: onerror or onclose of the transport of one connection (name, source)
\* leaves the entries of every other connection, and every tracked request,
\* token and task, as they were.
C13_TransportEventIsContained ==
    [][\A t \in TransportIds :
          TransportError(t) \/ TransportClose(t)
          => /\ Len(connections') = Len(connections)
             /\ \A i \in DOMAIN connections :
                   ~SameKey(connections[i], clients[t])
                   => connections'[i] = connections[i]
             /\ UNCHANGED <<activeProgressTokens, activeTasks, pendingRequests,
                            controllers>>]_vars

\* The global connection of "a" has recorded a transport error while the
\* project connection of "a" is connected with an empty history.
C13_OtherConnectionUntouched ==
    \E i, j \in DOMAIN connections :
        /\ connections[i].source = "global"
        /\ connections[i].status = "disconnected"
        /\ NewestError(connections[i], ErrTransport)
        /\ connections[j].source = "project"
        /\ connections[j].status = "connected"
        /\ connections[j].errorHistory = <<>>

\* C14: sendCancellation for a registered request id aborts the controller of
\* that request and removes its pending entry.
C14_SendCancellationAbortsLocally ==
    [][\A name \in Names, r \in RequestIds :
          sendCancellation(name, r, NoSource)
          /\ HasPending(pendingRequests, r)
          /\ pendingRequests[r].serverName = name
          => /\ ~HasPending(pendingRequests', r)
             /\ controllers'[ControllerOf(pendingRequests, r)].aborts = 1]_vars

\* C15: an inbound cancellation for a request id that is not registered
\* (never known, or already completed) aborts no controller and changes
\* neither the pending-request map nor anything else.
C15_UnknownCancellationIsNoOp ==
    [][\A t \in TransportIds, r \in RequestIds :
          CancelledNotification(t, r) /\ ~HasPending(pendingRequests, r)
          => /\ controllers' = controllers
             /\ pendingRequests' = pendingRequests
             /\ UNCHANGED vars]_vars

\* One request has completed and was never aborted while another is still
\* pending and not aborted: the state a late cancellation of the first
\* arrives in and leaves behind.
C15_LateCancellationSeen ==
    \E r, q \in RequestIds :
        /\ ~HasPending(pendingRequests, r)
        /\ HasPending(pendingRequests, q)
        /\ Len(controllers) = 2
        /\ \A k \in DOMAIN controllers : controllers[k].aborts = 0

\* C16: registering a request under an id that is still pending never
\* replaces the pending entry (and so never orphans its controller).
C16_PendingIdIsNotReused ==
    [][\A name \in Names, r \in RequestIds :
          registerCancellableRequest(name, r) /\ HasPending(pendingRequests, r)
          => pendingRequests'[r] = pendingRequests[r]]_vars

\* C17: an attempt to cancel the initialize request sends no cancellation
\* notification to the peer.
C17_HandshakeIsNotCancellable ==
    [][\A source \in Sources \cup {NoSource} :
          sendCancellation("a", InitializeId, source)
          => sent'.method # "notifications/cancelled"]_vars

\* C18: when the stored status of a task is terminal (a notification or a
\* poll result has reported it), a running pollTaskUntilComplete sends no
\* further tasks/get for that task.
C18_PollingStopsAtTerminal ==
    [][\A c \in TaskCallers :
          /\ ops[c].op = "pollTaskUntilComplete"
          /\ ops[c].pc = "pDelay"
          /\ ops'[c].pc = "pGet"
          => ~(/\ HasTask(activeTasks, ops[c].task)
               /\ activeTasks[ops[c].task].status \in Terminal)]_vars

\* C19: pollTaskUntilComplete sends tasks/result only in the step in which
\* tasks/get answered completed, and once: from that await it only ends,
\* sending nothing more.  When tasks/get answers failed or cancelled it sends
\* nothing and throws the failure or the cancellation; it returns a payload
\* only from the await of tasks/result.
C19_PayloadFetchedOnceAfterCompleted ==
    [][\A c \in TaskCallers :
          /\ ops[c].pc # "pResult" /\ ops'[c].pc = "pResult"
             => PollGot(c, "completed") /\ sent'.method = "tasks/result"
          /\ ops[c].pc = "pResult" /\ ops'[c] # ops[c]
             => ops'[c].pc = "idle" /\ sent' = sent
          /\ PollGot(c, "failed")
             => outcome' = TaskFailed /\ ops'[c].pc = "idle" /\ sent' = sent
          /\ PollGot(c, "cancelled")
             => /\ outcome' = TaskCancelled
                /\ ops'[c].pc = "idle"
                /\ sent' = sent
          /\ Ends(c, "pollTaskUntilComplete") /\ outcome' = "result"
             => ops[c].pc = "pResult"]_vars

\* A poll has observed completed and is awaiting the tasks/result it sent.
C19_AwaitingPayload ==
    \E c \in TaskCallers :
        /\ ops[c].op = "pollTaskUntilComplete"
        /\ ops[c].pc = "pResult"
        /\ sent.method = "tasks/result"
        /\ HasTask(activeTasks, ops[c].task)
        /\ activeTasks[ops[c].task].status = "completed"

\* C20: when the tasks/result request of getTaskResult succeeds, the record
\* of the task and the progress token of the task are gone; when it fails,
\* records and tokens are exactly as they were.
C20_ResultRetrievalCleansUp ==
    [][\A c \in TaskCallers :
          /\ GetTaskResultReturned(c, TRUE)
             => /\ ~HasTask(activeTasks', ops[c].task)
                /\ ~HasToken(activeProgressTokens',
                             activeTasks[ops[c].task].progressToken)
          /\ GetTaskResultReturned(c, FALSE)
             => UNCHANGED <<activeTasks, activeProgressTokens>>]_vars

\* A tasks/result request has failed over an open connection and the task
\* is still tracked, with its progress token still registered.
C20_FailedRetrievalKeepsRecord ==
    \E k \in TaskIds :
        /\ outcome = "error"
        /\ sent.method = "tasks/result"
        /\ clients[1].transport = "open"
        /\ HasTask(activeTasks, k)
        /\ HasToken(activeProgressTokens, activeTasks[k].progressToken)

\* C21: when tasks/get answers input_required inside pollTaskUntilComplete,
\* the step hands something to the caller (the call settles with an outcome
\* of its own) instead of going into the poll delay as it does for working.
C21_InputRequiredIsSignalled ==
    [][\A c \in TaskCallers :
          PollGot(c, "input_required")
          => outcome' # "none" /\ ops'[c].pc # "pDelay"]_vars

Reached(kind) == {i \in DOMAIN observed : observed[i].kind = kind}

\* C24: as long as a task is tracked, the progress token of its call is
\* registered with its callback, whatever polls and status notifications
\* have gone by; and a progress notification for the token of a tracked task
\* calls the callback, once, with the reported value.
C24_TokenLivesWithTask ==
    /\ [](\A k \in TaskIds :
             HasTask(activeTasks, k) /\ activeTasks[k].progressToken # 0
             => /\ HasToken(activeProgressTokens, activeTasks[k].progressToken)
                /\ activeProgressTokens[activeTasks[k].progressToken].callback)
    /\ [][\A k \in TaskIds, p \in 0 .. MaxProgress :
             /\ HasTask(activeTasks, k)
             /\ activeTasks[k].progressToken # 0
             /\ UNCHANGED <<ops, activeTasks>>
             /\ \E throws \in BOOLEAN, host \in Hosts :
                   ProgressNotification(1, activeTasks[k].progressToken, p,
                                        throws, host)
             => /\ Cardinality(Reached("callback")') = 1
                /\ \A i \in Reached("callback")' : observed'[i].value = p]_vars

\* A poll of a tracked task is between two passes, the status of the task
\* was pushed as input_required past it, and the progress notification that
\* came last reached the callback of the task's token.
C24_ProgressDuringPolling ==
    \E c \in TaskCallers, k \in TaskIds :
        /\ ops[c].op = "pollTaskUntilComplete"
        /\ ops[c].pc = "pDelay"
        /\ ops[c].task = k
        /\ HasTask(activeTasks, k)
        /\ activeTasks[k].status = "input_required"
        /\ activeTasks[k].progressToken # 0
        /\ activeProgressTokens[activeTasks[k].progressToken].lastProgress = 1
        /\ \E i \in Reached("callback") : observed[i].value = 1

\* C25: a progress notification for a registered token stores the reported
\* value, whether it is lower than the stored one or not; it calls the
\* callback of the token, if it has one, exactly once and with the reported
\* value; and it logs the regression warning exactly when the reported value
\* is lower than the one that was stored.
C25_ProgressIsStoredAndReportedRaw ==
    [][\A n \in Tokens, p \in 0 .. MaxProgress :
          /\ HasToken(activeProgressTokens, n)
          /\ UNCHANGED <<ops, activeTasks>>
          /\ \E throws \in BOOLEAN, host \in Hosts :
                ProgressNotification(1, n, p, throws, host)
          => /\ activeProgressTokens'[n].lastProgress = p
             /\ Cardinality(Reached("callback")') =
                  IF activeProgressTokens[n].callback THEN 1 ELSE 0
             /\ \A i \in Reached("callback")' : observed'[i].value = p
             /\ Cardinality(Reached("warn")') =
                  IF p < activeProgressTokens[n].lastProgress THEN 1 ELSE 0
             /\ \A i \in Reached("warn")' :
                   /\ observed'[i].value = p
                   /\ observed'[i].stored = activeProgressTokens[n].lastProgress]_vars

\* Progress 1 and then progress 0 arrived for a token: the stored value is
\* 0 again, the callback was called with 0, and the warning was logged.
C25_RegressionDelivered ==
    \E n \in Tokens :
        /\ HasToken(activeProgressTokens, n)
        /\ activeProgressTokens[n].lastProgress = 0
        /\ \E i \in Reached("warn") :
              observed[i].value = 0 /\ observed[i].stored = 1
        /\ \E i \in Reached("callback") : observed[i].value = 0

C27_ObserverFailureIsIsolated ==
    [][/\ \A n \in Tokens, p \in 0 .. MaxProgress, throws \in BOOLEAN,
            host \in Hosts :
             /\ HasToken(activeProgressTokens, n)
             /\ UNCHANGED <<ops, activeTasks>>
             /\ ProgressNotification(1, n, p, throws, host)
             => /\ activeProgressTokens'[n].lastProgress = p
                /\ activeProgressTokens[n].callback
                   => Reached("callback")' # {}
                /\ host # "none" => Reached("mcpProgress")' # {}
       /\ \A k \in TaskIds, s \in Statuses, host \in Hosts :
             /\ HasTask(activeTasks, k)
             /\ UNCHANGED <<ops, activeProgressTokens>>
             /\ TaskStatusNotification(1, k, s, host)
             => /\ activeTasks'[k].status = s
                /\ host # "none" => Reached("mcpTaskStatus")' # {}]_vars

\* C28: a progress, cancellation or task-status notification updates its
\* tracker whether or not there is a provider, and the callback and the
\* webview are called after the update: what the tracker holds when they are
\* called is the reported value.  The cancellation handler aborts and
\* removes the pending request and calls neither.
C28_TrackerFirstWithOrWithoutHost ==
    [][/\ \A n \in Tokens, p \in 0 .. MaxProgress, host \in Hosts :
             /\ HasToken(activeProgressTokens, n)
             /\ UNCHANGED <<ops, activeTasks, pendingRequests>>
             /\ \E throws \in BOOLEAN :
                   ProgressNotification(1, n, p, throws, host)
             => /\ activeProgressTokens'[n].lastProgress = p
                /\ \A i \in Reached("callback")' \cup Reached("mcpProgress")' :
                      observed'[i].stored = p
       /\ \A k \in TaskIds, s \in Statuses, host \in Hosts :
             /\ HasTask(activeTasks, k)
             /\ UNCHANGED <<ops, activeProgressTokens, pendingRequests>>
             /\ TaskStatusNotification(1, k, s, host)
             => /\ activeTasks'[k].status = s
                /\ \A i \in Reached("mcpTaskStatus")' : observed'[i].stored = s
       /\ \A r \in RequestIds :
             /\ HasPending(pendingRequests, r)
             /\ UNCHANGED <<ops, activeProgressTokens, activeTasks>>
             /\ CancelledNotification(1, r)
             => /\ ~HasPending(pendingRequests', r)
                /\ controllers'[pendingRequests[r].controller].aborts =
                     controllers[pendingRequests[r].controller].aborts + 1
                /\ observed' = <<>>]_vars

\* Progress 1 was handled with no provider there: the token holds 1 and the
\* callback, the only observer, was called when it already did.
C28_UpdatedWithoutHost ==
    \E n \in Tokens :
        /\ HasToken(activeProgressTokens, n)
        /\ activeProgressTokens[n].lastProgress = 1
        /\ observed = <<Effect("callback", 1, 1, TRUE)>>

\* C29: a log-message, list-changed or resource-updated notification is
\* passed on and nothing else: the connection entries (status, error,
\* error history) and the pending requests, progress tokens and tasks are as
\* they were.
C29_ForwardedNotificationsChangeNothing ==
    [][\A t \in TransportIds, host \in Hosts :
          \/ \E level \in LogLevels : LoggingMessageNotification(t, level, host)
          \/ \E list \in ListMethods : ListChangedNotification(t, list, host)
          \/ ResourceUpdatedNotification(t, host)
          => UNCHANGED <<connections, activeProgressTokens, activeTasks,
                         pendingRequests, controllers>>]_vars

\* Which of the four outcomes a reported value says.
Cause(value) ==
    CASE value = TaskFailed -> "remote error"
      [] value = TaskCancelled -> "cancelled"
      [] value = TaskTimedOut -> "timed out"
      [] value \in {Decline, SamplingDeclined} -> "declined"
      [] OTHER -> "other"

\* C30: the value reported tells the four outcomes apart: what
\* pollTaskUntilComplete throws for a failed task, for a cancelled task and
\* for a timeout, and what the elicitation and the sampling handler answer
\* when the user declines, are four different values.
C30_OutcomesAreDistinct ==
    [][/\ \A c \in TaskCallers :
             /\ PollGot(c, "failed") => Cause(outcome') = "remote error"
             /\ PollGot(c, "cancelled") => Cause(outcome') = "cancelled"
             /\ PollDelayed(c, TRUE) => Cause(outcome') = "timed out"
       /\ \A t \in TransportIds :
             /\ (\E augmented \in BOOLEAN, url \in BOOLEAN,
                    parses \in BOOLEAN :
                    ElicitationRequest(t, augmented, TRUE, TRUE, url,
                                       "noButtonClicked", parses))
                => Cause(outcome') = "declined"
             /\ (\E augmented \in BOOLEAN, llm \in BOOLEAN :
                    SamplingRequest(t, augmented, TRUE, TRUE,
                                    "noButtonClicked", llm))
                => Cause(outcome') = "declined"]_vars

\* The user was asked about a sampling request while a poll was between
\* two passes, and declined.
C30_DeclinedWhilePolling ==
    \E c \in TaskCallers :
        /\ ops[c].op = "pollTaskUntilComplete"
        /\ ops[c].pc = "pDelay"
        /\ outcome = SamplingDeclined
        /\ Reached("ask") # {}
\* The answer a task-augmented request asks for.
WorkingTask == "task working"

\* C31: an elicitation or sampling request that carries the task field is
\* answered with a Task in status working before task.ask resolves: the
\* answer of the handler is that Task, and the user has not been asked yet
\* when it is given.
C31_AugmentedRequestGetsWorkingTask ==
    [][\A t \in TransportIds, provider \in BOOLEAN, task \in BOOLEAN,
          response \in Responses :
          \/ \E url \in BOOLEAN, parses \in BOOLEAN :
               ElicitationRequest(t, TRUE, provider, task, url, response,
                                  parses)
          \/ \E llm \in BOOLEAN :
               SamplingRequest(t, TRUE, provider, task, response, llm)
          => outcome' = WorkingTask /\ observed' = <<>>]_vars
\* The entries deleteConnection(name, source) is about, and the others.
OfKey(conn, name, source) ==
    conn.name = name /\ (source = NoSource \/ conn.source = source)

OtherKeys(conns, name, source) ==
    SelectSeq(conns, LAMBDA conn : ~OfKey(conn, name, source))

NoEntry(conns, name, source) ==
    \A i \in DOMAIN conns : ~OfKey(conns[i], name, source)

C35_HistoryIsLastHundred ==
    /\ [](\A i \in DOMAIN connections :
            /\ Len(connections[i].errorHistory) <= 100
            /\ \A j \in DOMAIN connections[i].errorHistory :
                  connections[i].errorHistory[j].level
                      \in {"info", "warn", "error"})
    /\ [][\A i \in DOMAIN connections :
            LET h == connections[i].errorHistory
                g == connections'[i].errorHistory
                drop == IF Len(h) = 100 THEN 1 ELSE 0
                appends ==
                    \E t \in TransportIds :
                        /\ findConnection(clients[t].name, clients[t].source)
                             = i
                        /\ \/ TransportError(t)
                           \/ \E output \in StderrOutputs, host \in Hosts :
                                StderrData(t, output, FALSE, host)
            IN connections'[i] # connections[i] /\ (g # h \/ appends)
               => /\ Len(g) = Len(h) + 1 - drop
                  /\ \A j \in 1 .. Len(g) - 1 : g[j] = h[j + drop]
                  /\ g[Len(g)].message = connections'[i].error]_vars

\* A full history has lost its two oldest entries to two new lines.
C35_OldestDropped ==
    LET h == connections[1].errorHistory
    IN /\ Len(h) = 100
       /\ h[1] = [message |-> [text |-> "old", len |-> 3], level |-> "error"]
       /\ h[99].message.text = "stderr"
       /\ h[100].message = [text |-> "stderr", len |-> MAX_ERROR_LENGTH
                                                      + TRUNCATION_SUFFIX_LENGTH]
\* C36: a close or error event of a transport that is no longer the one of
\* the entry registered under its (name, source) leaves the status and the
\* error history of that entry as they were.
C36_SupersededTransportIsIgnored ==
    [][\A t \in TransportIds :
          LET i == findConnection(clients[t].name, clients[t].source)
          IN (TransportError(t) \/ TransportClose(t))
             /\ i # 0 /\ connections[i].tid # t
             => /\ connections'[i].status = connections[i].status
                /\ connections'[i].errorHistory
                     = connections[i].errorHistory]_vars
\* How pollTaskUntilComplete may end: with the payload, or by throwing for a
\* failed, a cancelled or a missing task, for the timeout, or what a request
\* to the peer threw.
PollOutcomes ==
    {"result", TaskFailed, TaskCancelled, TaskNotFound, TaskTimedOut,
     NotConnected, "error"}

\* C40: with every request to the peer settling, pollTaskUntilComplete ends,
\* and it ends with the payload or one of its errors.  The three timers stay
\* apart: an elapsed polling timeout ends the loop with the timeout error
\* and starts no tasks/get; a poll interval that has run out without the
\* timeout starts the next tasks/get; a request that failed, by its own
\* deadline or otherwise, ends the loop with that error and not with the
\* timeout.
C40_PollingTerminates ==
    /\ \A c \in TaskCallers :
          ops[c].op = "pollTaskUntilComplete"
          ~> ops[c].op # "pollTaskUntilComplete"
    /\ [][\A c \in TaskCallers :
            ops[c].op = "pollTaskUntilComplete" /\ ops'[c] # ops[c]
            => /\ ops'[c] = Idle => outcome' \in PollOutcomes
               /\ PollDelayed(c, TRUE)
                  => /\ ops'[c] = Idle
                     /\ outcome' = TaskTimedOut
                     /\ sent' = sent
               /\ PollDelayed(c, FALSE) /\ CanSend(ops[c].tid)
                  => /\ ops'[c].pc = "pGet"
                     /\ sent'.method = "tasks/get"
               /\ PollGot(c, "error") \/ PollResult(c, FALSE)
                  => ops'[c] = Idle /\ outcome' = "error"]_vars

\* A poll has ended by its timeout while the task was still working.
C40_TimedOutWhileWorking ==
    /\ outcome = TaskTimedOut
    /\ \A c \in TaskCallers : ops[c] = Idle
    /\ activeTasks["t1"].status = "working"
    /\ sent.method = "tasks/get"
\* C34: subscribeToResource on a connected server whose peer did not declare
\* resources.subscribe throws before anything is sent: the call ends with
\* that error in the same step, no request goes out, no subscription is
\* recorded and the connections and trackers stay as they were; so no
\* subscription of "b", whose peer never declares it, is ever recorded.
C34_SubscribeNeedsCapability ==
    /\ [](\A sub \in resourceSubscriptions : sub[1][1] # "b")
    /\ [][\A c \in TaskCallers, name \in Names, uri \in Uris,
            source \in {NoSource, "global"} :
            LET i == findConnection(name, source)
            IN /\ StartSubscribe(c, name, uri, source)
               /\ i # 0
               /\ connections[i].type = "connected"
               /\ ~connections[i].disabled
               /\ ~clients[connections[i].tid].subscribe
               => /\ ops'[c] = Idle
                  /\ outcome' = NoSubscriptions
                  /\ sent' = sent
                  /\ resourceSubscriptions' = resourceSubscriptions
                  /\ UNCHANGED <<connections, clients, activeProgressTokens,
                                 activeTasks, pendingRequests>>]_vars

\* "b" has just refused a subscription while one of "a" is recorded.
C34_RefusedNextToSubscribed ==
    /\ outcome = NoSubscriptions
    /\ resourceSubscriptions = {<<ServerKey("a", NoSource), "u1">>}
    /\ sent.method = "resources/subscribe"
    /\ \A c \in Callers : ops[c] = Idle
\* C37: whenever restartConnection, updateServerConnections called with
\* manageConnectingState, or refreshAllConnections ends, by returning or by
\* an exception, isConnecting is false.
C37_FlagResetWhenOperationEnds ==
    [][\A c \in Callers :
          /\ \/ ops[c].op = "restartConnection"
             \/ ops[c].op = "updateServerConnections" /\ ops[c].manage
             \/ ops[c].op = "refreshAllConnections"
          /\ ops'[c] = Idle
          => ~isConnecting']_vars
\* C39: updateServerConnections starts the deletion and reconnection of a
\* connected server only when the configuration newServers holds for it,
\* validated, differs from the one the server was connected with; and its
\* steps leave the entries of the other source as they were.
C39_UnchangedServerIsLeftAlone ==
    [][\A c \in Callers :
          /\ ops'[c].op = "updateServerConnections"
          /\ ops[c].pc \in {"idle", "uStep"}
          /\ ops'[c] # ops[c]
          => /\ \/ ops'[c].pc = "uReconnect"
                \/ ops'[c].pc = "dClose" /\ ops'[c].ret = "uReconnect"
                => ops'[c].cfg
                     # connections[findConnection(ops'[c].name,
                                                 ops'[c].source)].config
             /\ SelectSeq(connections',
                          LAMBDA conn : conn.source # ops'[c].source)
                  = SelectSeq(connections,
                              LAMBDA conn : conn.source # ops'[c].source)]_vars

\* C32: restartConnection of an existing connection shows the connection
\* as connecting in its first notification, before any notification of the
\* reconnected server, and the entry of the old connection is gone when it
\* calls connectToServer.
C32_ConnectingShownThenReconnected ==
    [][\A c \in Callers :
          /\ (\E host \in {"ok", "fails"} : RestartNotified(c, host, FALSE))
             => observed'[1].value = "connecting"
          /\ RestartDeleted(c)
             => NoEntry(connections, ops[c].name, ops[c].source)]_vars
\* C38: once dispose() has completed the hub holds no connection, no
\* progress token, no pending request, no task and no subscription, whatever
\* was in flight when it ran.
C38_NothingLeftAfterDispose ==
    isDisposed /\ (\A c \in Callers : ops[c].op # "dispose")
    => /\ connections = <<>>
       /\ \A k \in Tokens : ~HasToken(activeProgressTokens, k)
       /\ \A k \in RequestIds : ~HasPending(pendingRequests, k)
       /\ \A k \in TaskIds : ~HasTask(activeTasks, k)
       /\ resourceSubscriptions = {}
====
